---------------------------- MODULE Spec2Model ----------------------------
(***************************************************************************)
(* Model of the document field-extraction pipeline of go-identity-parser:  *)
(* the two document parsers (drivers_license_jp, individual_number_card_jp)*)
(* with their region stage, regex fallback stage, normalisation and        *)
(* validation.                                                             *)
(*                                                                         *)
(* A Go string is a sequence of characters; a character is a TLA+ string.  *)
(* ASCII characters stand for themselves.  Non-ASCII characters are named: *)
(*   uji=氏 na=名 juu=住 sho=所 sei=生 nen=年 gatsu=月 nichi=日 ko=個      *)
(*   jin=人 ban=番 gou=号 men=免 kyo=許 shou=証 kou=交 fu=付 yuu=有        *)
(*   kiku=効 ki=期 gen=限 saga=性 betsu=別 otoko=男 onna=女 shu=種 rui=類  *)
(*   no=の(hiragana) to=都 dou=道 hu=府 ken=県 shi=市 ku=区 machi=町       *)
(*   mura=村 chou=丁 me=目 chi=地 yama=山 ta=田 hana=花 child=子 futo=太   *)
(*   rou=郎 naka=中 higashi=東 kyou=京 minato=港 oo=大 saka=阪 hei=平      *)
(*   naru=成 aki=昭 wa=和 rei=令 fwcolon=： fwspace=U+3000                 *)
(* Every named character is 3 bytes in UTF-8, every ASCII one is 1 byte.   *)
(***************************************************************************)
EXTENDS Integers, Sequences, FiniteSets, TLC

(***************************************************************************)
(* Characters                                                              *)
(***************************************************************************)
Digits == {"0", "1", "2", "3", "4", "5", "6", "7", "8", "9"}

Ascii == Digits \cup {" ", "-", "\n", "\t", "\r", ":", "/", "|"}

\* CJK ideographs of the alphabet (all inside the range U+4E00..U+9FAF)
Kanji ==
  {"uji", "na", "juu", "sho", "sei", "nen", "gatsu", "nichi", "ko", "jin",
   "ban", "gou", "men", "kyo", "shou", "kou", "fu", "yuu", "kiku", "ki",
   "gen", "saga", "betsu", "otoko", "onna", "shu", "rui",
   "to", "dou", "hu", "ken", "shi", "ku", "machi", "mura", "chou", "me",
   "chi", "yama", "ta", "hana", "child", "futo", "rou", "naka", "higashi",
   "kyou", "minato", "oo", "saka", "hei", "naru", "aki", "wa", "rei"}

\* regexp \s is ASCII-only in Go (RE2): [\t\n\f\r ]
ReSpace == {" ", "\t", "\n", "\r"}

\* unicode.IsSpace, used by strings.TrimSpace: also U+3000
UnicodeSpace == ReSpace \cup {"fwspace"}

\* len() of a Go string counts bytes
RECURSIVE ByteLen(_)
ByteLen(s) ==
  IF s = <<>> THEN 0
  ELSE (IF Head(s) \in Ascii THEN 1 ELSE 3) + ByteLen(Tail(s))

(***************************************************************************)
(* package strings                                                         *)
(***************************************************************************)
HasPrefixAt(s, sub, i) ==
  /\ i + Len(sub) - 1 <= Len(s)
  /\ \A j \in 1..Len(sub) : s[i + j - 1] = sub[j]

Contains(s, sub) == \E i \in 1..(Len(s) + 1) : HasPrefixAt(s, sub, i)

ContainsAny(s, chars) == \E i \in 1..Len(s) : s[i] \in chars

RECURSIVE ReplaceFrom(_, _, _, _)
ReplaceFrom(s, old, new, i) ==
  IF i > Len(s) THEN <<>>
  ELSE IF HasPrefixAt(s, old, i)
       THEN new \o ReplaceFrom(s, old, new, i + Len(old))
       ELSE <<s[i]>> \o ReplaceFrom(s, old, new, i + 1)

\* strings.ReplaceAll with a non-empty old: non-overlapping, left to right
ReplaceAll(s, old, new) == ReplaceFrom(s, old, new, 1)

RECURSIVE TrimLeft(_)
TrimLeft(s) ==
  IF s /= <<>> /\ Head(s) \in UnicodeSpace THEN TrimLeft(Tail(s)) ELSE s

RECURSIVE TrimRight(_)
TrimRight(s) ==
  IF s /= <<>> /\ s[Len(s)] \in UnicodeSpace
  THEN TrimRight(SubSeq(s, 1, Len(s) - 1)) ELSE s

TrimSpace(s) == TrimRight(TrimLeft(s))

(***************************************************************************)
(* package regexp: leftmost-first (backtracking preference) matching of a  *)
(* pattern with one capturing group.  A pattern is a tree of nodes; the    *)
(* matcher works on a stack of nodes still to be matched.                  *)
(***************************************************************************)
In(S)     == [t |-> "chr", set |-> S, pos |-> TRUE]
NotIn(S)  == [t |-> "chr", set |-> S, pos |-> FALSE]
Ch(c)     == In({c})
Cat(xs)   == [t |-> "cat", xs |-> xs]
Alt(xs)   == [t |-> "alt", xs |-> xs]
Star(x)   == [t |-> "star", x |-> x]
Plus(x)   == Cat(<<x, Star(x)>>)
Opt(x)    == [t |-> "opt", x |-> x]
Rep(x, n) == Cat([i \in 1..n |-> x])
Lit(s)    == Cat([i \in 1..Len(s) |-> Ch(s[i])])
Group(x)  == Cat(<<[t |-> "capS"], x, [t |-> "capE"]>>)

NoMatch == <<>>

\* how many characters from position i on belong to character class x
RunLength(x, s, i) ==
  Cardinality({n \in 1..(Len(s) - i + 1) :
                 \A j \in 0..(n - 1) : (s[i + j] \in x.set) = x.pos})

RECURSIVE ReMatch(_, _, _, _, _)
RECURSIVE StarOfClass(_, _, _, _, _, _)

\* a starred character class followed by st: the longest run is preferred,
\* then each shorter one (greedy repetition)
StarOfClass(st, s, i, cs, ce, k) ==
  LET a == ReMatch(st, s, i + k, cs, ce)
  IN IF a /= NoMatch THEN a
     ELSE IF k = 0 THEN NoMatch
     ELSE StarOfClass(st, s, i, cs, ce, k - 1)

ReMatch(st, s, i, cs, ce) ==
  IF Len(st) = 0 THEN <<i, cs, ce>>
  ELSE
    LET n == Head(st)
        r == Tail(st)
    IN CASE n.t = "chr" ->
              IF i <= Len(s) /\ ((s[i] \in n.set) = n.pos)
              THEN ReMatch(r, s, i + 1, cs, ce) ELSE NoMatch
         [] n.t = "cat" -> ReMatch(n.xs \o r, s, i, cs, ce)
         [] n.t = "alt" ->
              IF Len(n.xs) = 0 THEN NoMatch
              ELSE LET a == ReMatch(<<n.xs[1]>> \o r, s, i, cs, ce)
                   IN IF a /= NoMatch THEN a
                      ELSE ReMatch(<<Alt(Tail(n.xs))>> \o r, s, i, cs, ce)
         [] n.t = "star" ->
              IF n.x.t = "chr"
              THEN StarOfClass(r, s, i, cs, ce, RunLength(n.x, s, i))
              ELSE LET a == ReMatch(<<n.x, n>> \o r, s, i, cs, ce)
                   IN IF a /= NoMatch THEN a ELSE ReMatch(r, s, i, cs, ce)
         [] n.t = "opt" ->
              LET a == ReMatch(<<n.x>> \o r, s, i, cs, ce)
              IN IF a /= NoMatch THEN a ELSE ReMatch(r, s, i, cs, ce)
         [] n.t = "capS" -> ReMatch(r, s, i, i, ce)
         [] n.t = "capE" -> ReMatch(r, s, i, cs, i)

RECURSIVE FindFrom(_, _, _)
FindFrom(re, s, i) ==
  IF i > Len(s) + 1 THEN [ok |-> FALSE, g1 |-> <<>>]
  ELSE LET m == ReMatch(<<re>>, s, i, 1, 1)
       IN IF m /= NoMatch
          THEN [ok |-> TRUE, g1 |-> SubSeq(s, m[2], m[3] - 1)]
          ELSE FindFrom(re, s, i + 1)

\* (*Regexp).FindStringSubmatch: ok <=> len(matches) > 1, g1 = matches[1]
FindStringSubmatch(re, s) == FindFrom(re, s, 1)


(***************************************************************************)
(* FieldMap: a Go map[string]string is a function from its keys to         *)
(* strings.  A map value that may be nil is <<"nil">> or <<"map", m>>.     *)
(***************************************************************************)
EmptyMap == <<>>

Put(m, k, v) == [x \in (DOMAIN m) \cup {k} |-> IF x = k THEN v ELSE m[x]]

NilMap == <<"nil">>

SomeMap(m) == <<"map", m>>

IsNilMap(mv) == mv[1] = "nil"

\* len() of a possibly nil map
MapLen(mv) == IF IsNilMap(mv) THEN 0 ELSE Cardinality(DOMAIN mv[2])

(***************************************************************************)
(* Pattern tables                                                          *)
(***************************************************************************)
initJPDriverLicensePatterns ==
  LET S     == Star(In(ReSpace))
      Sp    == Plus(In(ReSpace))
      NS    == Plus(NotIn(ReSpace))
      D     == In(Digits)
      Colon == Opt(In({":", "fwcolon"}))
      Line  == Plus(NotIn({"\r", "\n"}))
      Ja    == Plus(In(Kanji))
      Day   == Cat(<<D, Opt(D), Ch("nen"), D, Opt(D), Ch("gatsu"),
                     D, Opt(D), Ch("nichi")>>)
  IN [k \in {"name", "address", "birth_date", "license_number", "issue_date",
             "expiry_date", "license_class", "name_alt", "birth_date_alt"} |->
      CASE k = "name" ->
             Cat(<<Lit(<<"uji", "na">>), S, Group(Cat(<<NS, Sp, NS>>))>>)
        [] k = "address" ->
             Cat(<<Lit(<<"juu", "sho">>), S, Group(Plus(NotIn({"\n"})))>>)
        [] k = "birth_date" ->
             Cat(<<Lit(<<"sei", "nen", "gatsu", "nichi">>), S, Group(NS)>>)
        [] k = "license_number" ->
             Cat(<<Alt(<<Lit(<<"men", "kyo", "shou", "ban", "gou">>),
                         Cat(<<Lit(<<"men", "kyo", "shou">>), S,
                               Lit(<<"ban", "gou">>)>>)>>),
                   S, Colon, S,
                   Group(Alt(<<Cat(<<Rep(D, 4), S, Rep(D, 4), S, Rep(D, 4)>>),
                               Rep(D, 12)>>))>>)
        [] k = "issue_date" ->
             Cat(<<Alt(<<Lit(<<"kou", "fu", "nen", "gatsu", "nichi">>),
                         Cat(<<Lit(<<"kou", "fu">>), S, Ch("nen"), S,
                               Ch("gatsu"), S, Ch("nichi")>>)>>),
                   S, Colon, S, Group(Line)>>)
        [] k = "expiry_date" ->
             Cat(<<Alt(<<Lit(<<"yuu", "kiku", "ki", "gen">>),
                         Cat(<<Lit(<<"yuu", "kiku">>), S, Ch("ki"), S,
                               Ch("gen")>>)>>),
                   S, Colon, S, Group(Line)>>)
        [] k = "license_class" ->
             Cat(<<Alt(<<Lit(<<"men", "kyo", "no", "shu", "rui">>),
                         Cat(<<Lit(<<"men", "kyo">>), S, Ch("no"), S,
                               Lit(<<"shu", "rui">>)>>),
                         Lit(<<"shu", "rui">>)>>),
                   S, Colon, S, Group(Line)>>)
        [] k = "name_alt" -> Group(Cat(<<Ja, Sp, Ja>>))
        [] k = "birth_date_alt" ->
             Group(Alt(<<Cat(<<In({"hei", "naru", "|", "aki", "wa", "rei"}),
                               Day>>),
                         Cat(<<Rep(D, 4), Ch("nen"), D, Opt(D), Ch("gatsu"),
                               D, Opt(D), Ch("nichi")>>)>>))]

initIndividualNumberCardPatterns ==
  LET S     == Star(In(ReSpace))
      Sp    == Plus(In(ReSpace))
      D     == In(Digits)
      Colon == Opt(In({":", "fwcolon"}))
      Line  == Plus(NotIn({"\r", "\n"}))
      Ja    == Plus(In(Kanji))
      Day   == Cat(<<D, Opt(D), Ch("nen"), D, Opt(D), Ch("gatsu"),
                     D, Opt(D), Ch("nichi")>>)
      Pref  == {"to", "dou", "hu", "ken"}
      City  == {"shi", "ku", "machi", "mura"}
  IN [k \in {"name", "address", "birth_date", "gender", "individual_number",
             "issue_date", "expiry_date", "name_alt", "birth_date_alt",
             "individual_number_alt", "municipality"} |->
      CASE k = "name" ->
             Cat(<<Alt(<<Lit(<<"uji", "na">>),
                         Cat(<<Ch("uji"), S, Ch("na")>>)>>),
                   S, Colon, S, Group(Line)>>)
        [] k = "address" ->
             Cat(<<Alt(<<Lit(<<"juu", "sho">>),
                         Cat(<<Ch("juu"), S, Ch("sho")>>)>>),
                   S, Colon, S, Group(Line)>>)
        [] k = "birth_date" ->
             Cat(<<Alt(<<Lit(<<"sei", "nen", "gatsu", "nichi">>),
                         Cat(<<Ch("sei"), S, Ch("nen"), S, Ch("gatsu"), S,
                               Ch("nichi")>>)>>),
                   S, Colon, S, Group(Line)>>)
        [] k = "gender" ->
             Cat(<<Alt(<<Lit(<<"saga", "betsu">>),
                         Cat(<<Ch("saga"), S, Ch("betsu")>>)>>),
                   S, Colon, S, Group(In({"otoko", "onna"}))>>)
        [] k = "individual_number" ->
             Cat(<<Alt(<<Lit(<<"ko", "jin", "ban", "gou">>),
                         Cat(<<Lit(<<"ko", "jin">>), S,
                               Lit(<<"ban", "gou">>)>>)>>),
                   S, Colon, S,
                   Group(Alt(<<Cat(<<Rep(D, 4), S, Rep(D, 4), S, Rep(D, 4)>>),
                               Rep(D, 12)>>))>>)
        [] k = "issue_date" ->
             Cat(<<Alt(<<Lit(<<"kou", "fu", "nen", "gatsu", "nichi">>),
                         Cat(<<Lit(<<"kou", "fu">>), S, Ch("nen"), S,
                               Ch("gatsu"), S, Ch("nichi")>>)>>),
                   S, Colon, S, Group(Line)>>)
        [] k = "expiry_date" ->
             Cat(<<Alt(<<Lit(<<"yuu", "kiku", "ki", "gen">>),
                         Cat(<<Lit(<<"yuu", "kiku">>), S, Ch("ki"), S,
                               Ch("gen")>>)>>),
                   S, Colon, S, Group(Line)>>)
        [] k = "name_alt" -> Group(Cat(<<Ja, Sp, Ja>>))
        [] k = "birth_date_alt" ->
             Group(Alt(<<Cat(<<In({"hei", "naru", "|", "aki", "wa", "rei"}),
                               Day>>),
                         Cat(<<Rep(D, 4), Ch("nen"), D, Opt(D), Ch("gatsu"),
                               D, Opt(D), Ch("nichi")>>)>>))
        [] k = "individual_number_alt" ->
             Group(Cat(<<Rep(D, 4), Ch("-"), Rep(D, 4), Ch("-"), Rep(D, 4)>>))
        [] k = "municipality" ->
             Group(Cat(<<Plus(NotIn(Pref)), In(Pref), Plus(NotIn(City)),
                         In(City)>>))]

(***************************************************************************)
(* Region classifier and field validators                                  *)
(***************************************************************************)
DL  == "drivers_license_jp"
INC == "individual_number_card_jp"

\* "都道府県市区町村" and "0123456789年月日都道府県市区町村"
AdminMarks == {"to", "dou", "hu", "ken", "shi", "ku", "machi", "mura"}

NameStop == Digits \cup {"nen", "gatsu", "nichi"} \cup AdminMarks

categorizeText(text) ==
  IF Contains(text, <<"nen">>) /\ Contains(text, <<"gatsu">>) THEN "date"
  ELSE IF \/ Contains(text, <<"to">>) \/ Contains(text, <<"ken">>)
          \/ Contains(text, <<"shi">>) \/ Contains(text, <<"ku">>)
       THEN "address"
  ELSE IF ByteLen(text) >= 2 /\ ByteLen(text) <= 10
          /\ ~ContainsAny(text, Digits)
       THEN "name"
  ELSE IF ContainsAny(text, Digits) /\ ByteLen(text) >= 4 THEN "number"
  ELSE "other"

\* one element of the slice returned by ExtractRegions
RegionInfo(text) == [Text |-> text, Category |-> categorizeText(text)]

\* helpers of the individual number card parser
isValidName(text) ==
  IF ByteLen(text) < 2 \/ ByteLen(text) > 20 THEN FALSE
  ELSE ~ContainsAny(text, NameStop)

isValidAddress(text) ==
  IF ByteLen(text) < 5 THEN FALSE
  ELSE ContainsAny(text, AdminMarks)

isValidDate(text) ==
  Contains(text, <<"nen">>) /\ Contains(text, <<"gatsu">>)

isValidIndividualNumber(text) ==
  IF ByteLen(text) /= 12 THEN FALSE
  ELSE \A i \in 1..Len(text) : text[i] \in Digits

\* helpers used by the driver's license parser
isValidNameDL(text) ==
  IF \/ Contains(text, <<"uji", "na">>) \/ Contains(text, <<"ban", "gou">>)
     \/ Contains(text, <<"men", "kyo">>)
  THEN FALSE
  ELSE IF ByteLen(text) < 2 \/ ByteLen(text) > 20 THEN FALSE
  ELSE ~ContainsAny(text, NameStop)

isValidAddressDL(text) ==
  IF ByteLen(text) < 5 THEN FALSE
  ELSE IF ~ContainsAny(text, AdminMarks \cup {"chou", "me", "ban", "chi"})
       THEN FALSE
  ELSE IF \/ Contains(text, <<"uji", "na">>)
          \/ Contains(text, <<"sei", "nen", "gatsu", "nichi">>)
       THEN FALSE
  ELSE TRUE

isValidLicenseNumber(text) ==
  LET cleaned == ReplaceAll(text, <<" ">>, <<>>)
  IN IF ByteLen(cleaned) /= 12 THEN FALSE
     ELSE \A i \in 1..Len(cleaned) : cleaned[i] \in Digits

RECURSIVE extractMunicipalityFromRegions(_)
extractMunicipalityFromRegions(regions) ==
  IF regions = <<>> THEN <<>>
  ELSE LET region == Head(regions)
           municipality == TrimSpace(region.Text)
       IN IF /\ \/ Contains(region.Text, <<"to">>)
                   \/ Contains(region.Text, <<"ken">>)
                   \/ Contains(region.Text, <<"shi">>)
                   \/ Contains(region.Text, <<"ku">>)
             /\ ByteLen(municipality) >= 3 /\ ByteLen(municipality) <= 20
          THEN municipality
          ELSE extractMunicipalityFromRegions(Tail(regions))

\* the category loop of extractNameFromRegions; dl selects the version's
\* isValidName
RECURSIVE nameByCategory(_, _)
nameByCategory(regions, dl) ==
  IF regions = <<>> THEN <<>>
  ELSE LET region == Head(regions)
           name   == TrimSpace(region.Text)
       IN IF /\ \/ region.Category = "name"
                   \/ /\ ByteLen(region.Text) >= 2
                      /\ ByteLen(region.Text) <= 10
                      /\ ~ContainsAny(region.Text,
                                       NameStop \cup {"ko", "jin", "ban", "gou"})
             /\ IF dl THEN isValidNameDL(name) ELSE isValidName(name)
          THEN name
          ELSE nameByCategory(Tail(regions), dl)

\* individual number card version
extractNameFromRegions(regions) == nameByCategory(regions, FALSE)

RECURSIVE nameByLabel(_, _)
nameByLabel(regions, i) ==
  IF i > Len(regions) THEN <<>>
  ELSE LET region == regions[i]
           next == TrimSpace(ReplaceAll(TrimSpace(regions[i + 1].Text),
                                        <<"uji", "na">>, <<>>))
           same == TrimSpace(ReplaceAll(region.Text, <<"uji", "na">>, <<>>))
       IN IF \/ Contains(region.Text, <<"uji", "na">>)
             \/ Contains(region.Text, <<"uji", " ", "na">>)
          THEN IF i + 1 <= Len(regions) /\ isValidNameDL(next) THEN next
               ELSE IF isValidNameDL(same) THEN same
               ELSE nameByLabel(regions, i + 1)
          ELSE nameByLabel(regions, i + 1)

\* driver's license version: label search first, then the category loop
extractNameFromRegionsDL(regions) ==
  LET byLabel == nameByLabel(regions, 1)
  IN IF byLabel /= <<>> THEN byLabel ELSE nameByCategory(regions, TRUE)

(***************************************************************************)
(* Region stage: per-fragment dispatch, then the two enhancement passes    *)
(***************************************************************************)
\* body of the switch in JPDriverLicenseParser.parseWithRegionDetection
dispatchDL(data, region) ==
  CASE region.Category = "name" ->
         IF isValidNameDL(region.Text) THEN Put(data, "name", region.Text)
         ELSE data
    [] region.Category = "address" ->
         IF isValidAddressDL(region.Text)
         THEN Put(data, "address", region.Text) ELSE data
    [] region.Category = "date" ->
         IF isValidDate(region.Text)
         THEN IF Contains(region.Text, <<"sei">>)
              THEN Put(data, "birth_date", region.Text)
              ELSE IF Contains(region.Text, <<"kou", "fu">>)
              THEN Put(data, "issue_date", region.Text)
              ELSE IF Contains(region.Text, <<"yuu", "kiku">>)
              THEN Put(data, "expiry_date", region.Text)
              ELSE data
         ELSE data
    [] region.Category = "number" ->
         IF isValidLicenseNumber(region.Text)
         THEN Put(data, "license_number", region.Text) ELSE data
    [] OTHER -> data

\* body of the switch in IndividualNumberCardParser.parseWithRegionDetection
dispatchINC(data, region) ==
  CASE region.Category = "name" ->
         IF isValidName(region.Text) THEN Put(data, "name", region.Text)
         ELSE data
    [] region.Category = "address" ->
         IF isValidAddress(region.Text)
         THEN Put(data, "address", region.Text) ELSE data
    [] region.Category = "date" ->
         IF isValidDate(region.Text)
         THEN IF Contains(region.Text, <<"sei">>)
              THEN Put(data, "birth_date", region.Text)
              ELSE Put(data, "expiry_date", region.Text)
         ELSE data
    [] region.Category = "number" ->
         IF isValidIndividualNumber(region.Text)
         THEN Put(data, "individual_number", region.Text) ELSE data
    [] OTHER -> data

\* the for loop over regions, in OCR-returned order
RECURSIVE dispatchAll(_, _, _)
dispatchAll(doc, data, regions) ==
  IF regions = <<>> THEN data
  ELSE dispatchAll(doc,
                   IF doc = DL THEN dispatchDL(data, Head(regions))
                   ELSE dispatchINC(data, Head(regions)),
                   Tail(regions))

\* the map parseWithRegionDetection returns once ExtractRegions succeeded
regionFields(doc, regions) ==
  LET d0 == dispatchAll(doc, EmptyMap, regions)
      municipality == extractMunicipalityFromRegions(regions)
      d1 == IF municipality /= <<>> THEN Put(d0, "municipality", municipality)
            ELSE d0
      name == IF doc = DL THEN extractNameFromRegionsDL(regions)
              ELSE extractNameFromRegions(regions)
  IN IF name /= <<>> THEN Put(d1, "name", name) ELSE d1

(***************************************************************************)
(* Fallback stage: regex extraction, normalisation, validation             *)
(***************************************************************************)
patterns(doc) ==
  IF doc = DL THEN initJPDriverLicensePatterns
  ELSE initIndividualNumberCardPatterns

\* the loop "for fieldName, pattern := range p.patterns"; the keys are
\* distinct, so the iteration order does not show in the result
applyPatterns(doc, ocrText) ==
  LET pats  == patterns(doc)
      \* <<fieldName, value>> of every pattern that matched
      found == {<<k, TrimSpace(m.g1)>> : <<k, m>> \in
                  {h \in {<<f, FindStringSubmatch(pats[f], ocrText)>> :
                            f \in DOMAIN pats} : h[2].ok}}
      kept  == {h \in found : h[2] /= <<>>}
  IN [k \in {h[1] : h \in kept} |-> (CHOOSE h \in kept : h[1] = k)[2]]

\* an alternate block without its "!exists" guard
applyAlternateOverriding(doc, data, field, altKey, ocrText) ==
  IF altKey \in DOMAIN patterns(doc)
  THEN LET m == FindStringSubmatch(patterns(doc)[altKey], ocrText)
       IN IF m.ok THEN Put(data, field, TrimSpace(m.g1)) ELSE data
  ELSE data

\* one "if _, exists := extractedData[field]; !exists" block
applyAlternate(doc, data, field, altKey, ocrText) ==
  IF field \notin DOMAIN data /\ altKey \in DOMAIN patterns(doc)
  THEN LET m == FindStringSubmatch(patterns(doc)[altKey], ocrText)
       IN IF m.ok THEN Put(data, field, TrimSpace(m.g1)) ELSE data
  ELSE data

\* the alternate blocks of parseTextWithRegex, in source order
applyAlternates(doc, data, ocrText) ==
  LET a1 == applyAlternate(doc, data, "name", "name_alt", ocrText)
      a2 == applyAlternate(doc, a1, "birth_date", "birth_date_alt", ocrText)
  IN IF doc = DL THEN a2
     ELSE applyAlternate(doc, a2, "individual_number",
                         "individual_number_alt", ocrText)

\* address clean-up, identical in both parsers
RECURSIVE collapseSpaces(_)
collapseSpaces(s) ==
  IF Contains(s, <<" ", " ">>)
  THEN collapseSpaces(ReplaceAll(s, <<" ", " ">>, <<" ">>)) ELSE s

normalizeAddress(address) ==
  TrimSpace(collapseSpaces(ReplaceAll(ReplaceAll(address, <<"\n">>, <<" ">>),
                                      <<"\t">>, <<" ">>)))

\* name clean-up, identical in both parsers (len([]rune) counts characters)
normalizeName(name) ==
  LET cleaned == TrimSpace(name)
      end == IF Len(cleaned) > 5 THEN 3 ELSE 2
  IN IF ~Contains(cleaned, <<" ">>) /\ Len(cleaned) > 2 /\ Len(cleaned) >= 4
     THEN SubSeq(cleaned, 1, end) \o <<" ">>
          \o SubSeq(cleaned, end + 1, Len(cleaned))
     ELSE cleaned

normalizeLicenseNumber(licenseNumber) ==
  TrimSpace(ReplaceAll(licenseNumber, <<" ", " ">>, <<" ">>))

\* the clean-up that strips spaces only and groups whatever is left
normalizeIndividualNumberGroupingRaw(individualNumber) ==
  LET cleaned == ReplaceAll(individualNumber, <<" ">>, <<>>)
  IN IF ByteLen(cleaned) >= 12
     THEN SubSeq(cleaned, 1, 4) \o <<"-">> \o SubSeq(cleaned, 5, 8)
          \o <<"-">> \o SubSeq(cleaned, 9, Len(cleaned))
     ELSE individualNumber

\* the clean-up that strips the separators and stops there
normalizeIndividualNumberStripOnly(individualNumber) ==
  ReplaceAll(ReplaceAll(individualNumber, <<" ">>, <<>>), <<"-">>, <<>>)

normalizeIndividualNumber(individualNumber) ==
  LET cleaned == ReplaceAll(ReplaceAll(individualNumber, <<" ">>, <<>>),
                            <<"-">>, <<>>)
  IN IF ByteLen(cleaned) = 12
     THEN SubSeq(cleaned, 1, 4) \o <<"-">> \o SubSeq(cleaned, 5, 8)
          \o <<"-">> \o SubSeq(cleaned, 9, 12)
     ELSE individualNumber

normalizeGender(gender) ==
  LET cleaned == TrimSpace(gender)
  IN IF cleaned = <<"otoko", "saga">> \/ cleaned = <<"otoko">>
     THEN <<"otoko">>
     ELSE IF cleaned = <<"onna", "saga">> \/ cleaned = <<"onna">>
     THEN <<"onna">>
     ELSE gender

postProcessExtractedData(doc, data) ==
  [k \in DOMAIN data |->
     CASE k = "license_number" /\ doc = DL -> normalizeLicenseNumber(data[k])
       [] k = "individual_number" /\ doc = INC ->
            normalizeIndividualNumber(data[k])
       [] k = "address" -> normalizeAddress(data[k])
       [] k = "name" -> normalizeName(data[k])
       [] k = "gender" /\ doc = INC -> normalizeGender(data[k])
       [] OTHER -> data[k]]

\* an error is its chain of wrapped messages, outermost first; nil is <<>>
NoError == <<>>

RequiredFields == {"name"}

validateDL(data) ==
  IF \E f \in RequiredFields :
       f \notin DOMAIN data \/ TrimSpace(data[f]) = <<>>
  THEN <<"required field 'name' is missing or empty">>
  ELSE IF /\ "license_number" \in DOMAIN data
          /\ ByteLen(ReplaceAll(data["license_number"], <<" ">>, <<>>)) /= 12
       THEN <<"invalid license number format">>
  ELSE NoError

validateINC(data) ==
  IF \E f \in RequiredFields :
       f \notin DOMAIN data \/ TrimSpace(data[f]) = <<>>
  THEN <<"required field 'name' is missing or empty">>
  ELSE IF /\ "individual_number" \in DOMAIN data
          /\ ByteLen(ReplaceAll(ReplaceAll(data["individual_number"],
                                           <<" ">>, <<>>),
                                <<"-">>, <<>>)) /= 12
       THEN <<"invalid individual number format">>
  ELSE IF /\ "gender" \in DOMAIN data
          /\ data["gender"] /= <<"otoko">> /\ data["gender"] /= <<"onna">>
       THEN <<"invalid gender value">>
  ELSE NoError

\* validation that forgets the required-field loop
validateWithoutRequired(doc, data) ==
  IF doc = DL
  THEN IF /\ "license_number" \in DOMAIN data
          /\ ByteLen(ReplaceAll(data["license_number"], <<" ">>, <<>>)) /= 12
       THEN <<"invalid license number format">> ELSE NoError
  ELSE IF /\ "individual_number" \in DOMAIN data
          /\ ByteLen(ReplaceAll(ReplaceAll(data["individual_number"],
                                           <<" ">>, <<>>),
                                <<"-">>, <<>>)) /= 12
       THEN <<"invalid individual number format">> ELSE NoError

\* validation that forgets the numeric-ID length check
validateWithoutNumber(doc, data) ==
  IF \E f \in RequiredFields :
       f \notin DOMAIN data \/ TrimSpace(data[f]) = <<>>
  THEN <<"required field 'name' is missing or empty">>
  ELSE NoError

\* validation whose required-field loop tests presence only, not blankness
validateRequiredPresentOnly(doc, data) ==
  IF \E f \in RequiredFields : f \notin DOMAIN data
  THEN <<"required field 'name' is missing or empty">>
  ELSE validateWithoutRequired(doc, data)

validateExtractedData(doc, data) ==
  IF doc = DL THEN validateDL(data) ELSE validateINC(data)

\* parseTextWithRegex as a whole: pattern loop, alternates, normalisation
parseTextWithRegex(doc, ocrText) ==
  postProcessExtractedData(doc,
    applyAlternates(doc, applyPatterns(doc, ocrText), ocrText))

(***************************************************************************)
(* Inputs: what the OCR engine can return                                  *)
(***************************************************************************)
MaxRegions == 3

\* fragment texts ExtractRegions may return (trimmed, non-empty)
RegionTexts ==
  { <<"yama", "ta">>,                                   \* 山田
    <<"hana", "child">>,                                \* 花子
    <<"ta", "naka", "futo", "rou">>,                    \* 田中太郎
    <<"uji", "na">>,                                    \* 氏名
    <<"higashi", "kyou", "to", "minato", "ku">>,        \* 東京都港区
    <<"oo", "saka", "hu", "oo", "saka", "shi">>,        \* 大阪府大阪市
    <<"5", "nen", "1", "gatsu", "sei">>,                \* 5年1月生
    <<"6", "nen", "2", "gatsu", "sei">>,                \* 6年2月生
    <<"5", "nen", "1", "gatsu", "kou", "fu">>,          \* 5年1月交付
    <<"7", "nen", "3", "gatsu", "yuu", "kiku">>,        \* 7年3月有効
    <<"hei", "naru", "5", "nen", "1", "2", "gatsu", "2", "5", "nichi">>,
                                                        \* 平成5年12月25日
    <<"1", "2", "3", "4", "5", "6", "7", "8", "9", "0", "1", "2">>,
    <<"2", "1", "0", "9", "8", "7", "6", "5", "4", "3", "2", "1">>,
    <<"1", "2", "3", "4", "5", "6", "7", "8", "9", "0", "1">>,
    <<"1", "2", "3", "4", "-", "5", "6", "7", "8", "-", "9", "0", "1", "2">>,
    <<"1", "2", "3", "4", " ", "5", "6", "7", "8", " ", "9", "0", "1", "2">> }

RECURSIVE SeqsUpTo(_, _)
SeqsUpTo(S, n) ==
  IF n = 0 THEN {<<>>}
  ELSE LET shorter == SeqsUpTo(S, n - 1)
       IN shorter \cup {Append(q, x) : q \in shorter, x \in S}

RegionLists ==
  {[i \in 1..Len(q) |-> RegionInfo(q[i])] : q \in SeqsUpTo(RegionTexts, MaxRegions)}

\* flat texts ExtractText may return (trimmed, non-empty)
NameLine == <<"uji", "na", " ", "yama", "ta", " ", "hana", "child">>

Number12 == <<"1", "2", "3", "4", "5", "6", "7", "8", "9", "0", "1", "2">>

FlatTexts ==
  { \* 氏名 山田 花子\n住所 大阪府大阪市\n個人番号 123456789012
    NameLine \o <<"\n", "juu", "sho", " ", "oo", "saka", "hu", "oo", "saka",
                  "shi", "\n", "ko", "jin", "ban", "gou", " ">> \o Number12,
    \* 氏名 山田 花子\n住所 東京都港区\n免許証番号 1234 5678 9012
    NameLine \o <<"\n", "juu", "sho", " ", "higashi", "kyou", "to", "minato",
                  "ku", "\n", "men", "kyo", "shou", "ban", "gou", " ",
                  "1", "2", "3", "4", " ", "5", "6", "7", "8", " ",
                  "9", "0", "1", "2">>,
    \* 氏名 山田 花子\n生年月日 1990/01/01
    NameLine \o <<"\n", "sei", "nen", "gatsu", "nichi", " ",
                  "1", "9", "9", "0", "/", "0", "1", "/", "0", "1">>,
    \* 山田 花子\n平成5年12月25日
    <<"yama", "ta", " ", "hana", "child", "\n", "hei", "naru", "5", "nen",
      "1", "2", "gatsu", "2", "5", "nichi">>,
    \* 住所：東京都港区
    <<"juu", "sho", "fwcolon", "higashi", "kyou", "to", "minato", "ku">>,
    \* 氏名 山田 花子\n個人番号 1234\t5678\t9012
    NameLine \o <<"\n", "ko", "jin", "ban", "gou", " ", "1", "2", "3", "4",
                  "\t", "5", "6", "7", "8", "\t", "9", "0", "1", "2">>,
    \* 氏名 山田 花子\n免許証番号 1234\t5678\t9012
    NameLine \o <<"\n", "men", "kyo", "shou", "ban", "gou", " ", "1", "2",
                  "3", "4", "\t", "5", "6", "7", "8", "\t", "9", "0", "1",
                  "2">>,
    \* 氏名 山田 花子\n性別 男\n1234-5678-9012
    NameLine \o <<"\n", "saga", "betsu", " ", "otoko", "\n", "1", "2", "3",
                  "4", "-", "5", "6", "7", "8", "-", "9", "0", "1", "2">>,
    \* 氏名 田中太郎
    <<"uji", "na", " ", "ta", "naka", "futo", "rou">> }

\* a Mat is a byte slice; only its length matters to the parsers
Mats == {0, 1}

DocumentTypes == {DL, INC}

\* OCREngine.ExtractRegions: an error, or the fragments of the image
ExtractRegions(m) ==
  IF m = 0 THEN {[err |-> <<"cannot process empty image">>, regions |-> <<>>]}
  ELSE {[err |-> <<"tesseract TSV command failed">>, regions |-> <<>>]}
       \cup {[err |-> NoError, regions |-> rs] : rs \in RegionLists}

\* OCREngine.ExtractText: an error, or the non-empty trimmed text
ExtractText(m) ==
  IF m = 0 THEN {[err |-> <<"cannot process empty image">>, text |-> <<>>]}
  ELSE {[err |-> <<"tesseract OCR command failed">>, text |-> <<>>]}
       \cup {[err |-> NoError, text |-> t] : t \in FlatTexts}

(***************************************************************************)
(* OCR engine handles: a handle records the stage that created it and how  *)
(* often Close was called on it                                            *)
(***************************************************************************)
\* engine := ocr.NewOCREngine(): a fresh handle, appended to those created
NewOCREngine(engs, stage) == Append(engs, [stage |-> stage, closes |-> 0])

\* engine.Close() on the handle created last
Close(engs) == [engs EXCEPT ![Len(engs)].closes = @ + 1]

\* does extractTextUsingOCR get as far as creating an engine
fallbackAcquires(doc, m) == ~(doc = INC /\ m = 0)

(***************************************************************************)
(* One Parse call at a time, step by step                                  *)
(***************************************************************************)
VARIABLES
  pc,             \* position inside Parse: "idle" between calls
  docType,        \* which parser was called
  mat,            \* length of the Mat argument
  regions,        \* local of parseWithRegionDetection, <<>> outside it
  extractedData,  \* Parse's extractedData
  err,            \* Parse's err
  ocrText,        \* Parse's ocrText
  ret,            \* what Parse returned: [data, err]
  regionResult,   \* what parseWithRegionDetection returned to Parse
  regionCalls,    \* ExtractRegions requests made by this call
  textCalls,      \* extractTextUsingOCR invocations made by this call
  engines,        \* the OCR engine handles this call created, in order
  \* one HTTP request at a time (handler.go)
  hpc,            \* position of HandleOCR / of a direct caller
  req,            \* the OCRRequest
  ctxErr,         \* ctx.Err() of the request context
  wpc,            \* position inside processOCRRequest
  parser,         \* the parser processOCRRequest obtained, "" before
  workerRet,      \* what processOCRRequest returned
  resultChan,     \* buffered channel of size 1
  errorChan,      \* buffered channel of size 1
  waitEnded,      \* the select case that ended the wait
  selected,       \* what processOCRRequestWithTimeout returned
  response,       \* the HTTP response written
  parseCalls,     \* parser.Parse invocations made for this request
  \* one validateExtractedData call on a given FieldMap
  validation,
  \* one ParserFactory (parser.go)
  factory,        \* pf.parsers: document type -> parser
  registrations,  \* the RegisterParser calls made after construction
  factoryCall,    \* the last read-only call on the factory and its result
  \* postProcessExtractedData applied repeatedly to a given FieldMap
  normalization,
  \* processOCRRequest calls running concurrently on one handler
  calls           \* per call: its position and its local variables

parserVars == <<pc, docType, mat, regions, extractedData, err, ocrText, ret,
                regionResult, regionCalls, textCalls, engines>>

handlerVars == <<hpc, req, ctxErr, wpc, parser, workerRet, resultChan,
                 errorChan, waitEnded, selected, response, parseCalls>>

factoryVars == <<factory, registrations, factoryCall>>

normVars == <<normalization>>

concVars == <<calls>>

otherVars == <<factoryVars, normVars, concVars>>

vars == <<parserVars, handlerVars, validation, otherVars>>

NoReturn == [data |-> NilMap, err |-> NoError]

NoResult == [data |-> NilMap, err |-> NoError]

\* the parser before its first call
ParserInit ==
  /\ pc = "idle"
  /\ docType = DL
  /\ mat = 0
  /\ regions = <<>>
  /\ extractedData = NilMap
  /\ err = NoError
  /\ ocrText = <<>>
  /\ ret = NoReturn
  /\ regionResult = NoResult
  /\ regionCalls = 0
  /\ textCalls = 0
  /\ engines = <<>>

\* a caller invokes parser.Parse(mat) on the parser of document type d
Parse(d, m) ==
  /\ pc = "idle"
  /\ pc' = "region"
  /\ docType' = d
  /\ mat' = m
  /\ regions' = <<>>
  /\ extractedData' = NilMap
  /\ err' = NoError
  /\ ocrText' = <<>>
  /\ ret' = NoReturn
  /\ regionResult' = NoResult
  /\ regionCalls' = 0
  /\ textCalls' = 0
  /\ engines' = <<>>
  /\ UNCHANGED <<handlerVars, validation, otherVars>>

\* Step 1 with engine.Close() called before the success return only,
\* instead of being deferred
parseWithRegionDetectionLeaky ==
  /\ pc = "region"
  /\ IF mat = 0
     THEN /\ extractedData' = NilMap
          /\ err' = <<"failed to convert Mat to bytes", "empty Mat data">>
          /\ regions' = <<>>
          /\ regionCalls' = regionCalls
          /\ engines' = engines
     ELSE \E out \in ExtractRegions(mat) :
            /\ regionCalls' = regionCalls + 1
            /\ regions' = out.regions
            /\ IF out.err /= NoError
               THEN /\ extractedData' = NilMap
                    /\ err' = <<"failed to extract regions">> \o out.err
                    /\ engines' = NewOCREngine(engines, "region")
               ELSE /\ extractedData' =
                         SomeMap(regionFields(docType, out.regions))
                    /\ err' = NoError
                    /\ engines' = Close(NewOCREngine(engines, "region"))
  /\ regionResult' = [data |-> extractedData', err |-> err']
  /\ pc' = "regionCheck"
  /\ UNCHANGED <<docType, mat, ocrText, ret, textCalls>>
  /\ UNCHANGED <<handlerVars, validation, otherVars>>

\* Step 1: extractedData, err := p.parseWithRegionDetection(mat)
parseWithRegionDetection ==
  /\ pc = "region"
  /\ IF mat = 0
     THEN \* mat.ToBytes() fails before the engine is created
          /\ extractedData' = NilMap
          /\ err' = <<"failed to convert Mat to bytes", "empty Mat data">>
          /\ regions' = <<>>
          /\ regionCalls' = regionCalls
          /\ engines' = engines
     ELSE \E out \in ExtractRegions(mat) :
            /\ regionCalls' = regionCalls + 1
            /\ regions' = out.regions
            \* the deferred Close runs on the error and the success return
            /\ engines' = Close(NewOCREngine(engines, "region"))
            /\ IF out.err /= NoError
               THEN /\ extractedData' = NilMap
                    /\ err' = <<"failed to extract regions">> \o out.err
               ELSE /\ extractedData' =
                         SomeMap(regionFields(docType, out.regions))
                    /\ err' = NoError
  /\ regionResult' = [data |-> extractedData', err |-> err']
  /\ pc' = "regionCheck"
  /\ UNCHANGED <<docType, mat, ocrText, ret, textCalls>>
  /\ UNCHANGED <<handlerVars, validation, otherVars>>

\* the test Parse applies to the region stage's result
regionAccepted(doc, data, e) ==
  /\ e = NoError
  /\ MapLen(data) > 0
  /\ validateExtractedData(doc, data[2]) = NoError

\* Step 1.5 that never takes the early return
ParseRegionCheckNeverReturns ==
  /\ pc = "regionCheck"
  /\ ret' = ret
  /\ pc' = "ocr"
  /\ regions' = <<>>
  /\ UNCHANGED <<docType, mat, extractedData, err, ocrText, regionResult,
                 regionCalls, textCalls>>
  /\ UNCHANGED <<engines, handlerVars, validation, otherVars>>

\* Step 1.5 that hands a region-stage error to the caller
ParseRegionCheckSurfacing ==
  /\ pc = "regionCheck"
  /\ IF err /= NoError
     THEN /\ ret' = [data |-> NilMap, err |-> err]
          /\ pc' = "done"
     ELSE IF regionAccepted(docType, extractedData, err)
     THEN /\ ret' = [data |-> extractedData, err |-> NoError]
          /\ pc' = "done"
     ELSE /\ ret' = ret
          /\ pc' = "ocr"
  /\ regions' = <<>>
  /\ UNCHANGED <<docType, mat, extractedData, err, ocrText, regionResult,
                 regionCalls, textCalls>>
  /\ UNCHANGED <<engines, handlerVars, validation, otherVars>>

\* Step 1.5 that runs the region stage a second time before falling back
ParseRegionCheckRetrying ==
  /\ pc = "regionCheck"
  /\ IF regionAccepted(docType, extractedData, err)
     THEN /\ ret' = [data |-> extractedData, err |-> NoError]
          /\ pc' = "done"
     ELSE /\ ret' = ret
          /\ pc' = IF regionCalls = 1 THEN "region" ELSE "ocr"
  /\ regions' = <<>>
  /\ UNCHANGED <<docType, mat, extractedData, err, ocrText, regionResult,
                 regionCalls, textCalls>>
  /\ UNCHANGED <<engines, handlerVars, validation, otherVars>>

\* Step 1.5: return the region result if it is non-empty and valid
ParseRegionCheck ==
  /\ pc = "regionCheck"
  /\ IF regionAccepted(docType, extractedData, err)
     THEN /\ ret' = [data |-> extractedData, err |-> NoError]
          /\ pc' = "done"
     ELSE /\ ret' = ret
          /\ pc' = "ocr"
  /\ regions' = <<>>
  /\ UNCHANGED <<docType, mat, extractedData, err, ocrText, regionResult,
                 regionCalls, textCalls>>
  /\ UNCHANGED <<engines, handlerVars, validation, otherVars>>

\* IndividualNumberCardParser.extractTextUsingOCR
extractTextUsingOCR(m) ==
  IF m = 0 THEN {[err |-> <<"cannot process empty image">>, text |-> <<>>]}
  ELSE {IF out.err /= NoError
        THEN [err |-> <<"OCR engine failed to extract text">> \o out.err,
              text |-> <<>>]
        ELSE out : out \in ExtractText(m)}

\* JPDriverLicenseParser.extractTextUsingOCR: the flat text or an error
extractTextUsingOCRDL(m) ==
  {IF out.err /= NoError
   THEN [err |-> <<"OCR engine failure">> \o out.err, text |-> <<>>]
   ELSE out : out \in ExtractText(m)}

\* Step 2: ocrText, err := p.extractTextUsingOCR(mat)
ParseExtractText ==
  /\ pc = "ocr"
  /\ textCalls' = textCalls + 1
  /\ engines' = IF fallbackAcquires(docType, mat)
                THEN Close(NewOCREngine(engines, "fallback")) ELSE engines
  /\ \E out \in (IF docType = DL THEN extractTextUsingOCRDL(mat)
                 ELSE extractTextUsingOCR(mat)) :
       /\ ocrText' = out.text
       /\ err' = out.err
       /\ IF out.err /= NoError
          THEN /\ ret' = [data |-> NilMap,
                          err |-> <<"failed to extract text via OCR">>
                                  \o out.err]
               /\ pc' = "done"
          ELSE /\ ret' = ret
               /\ pc' = "regex"
  /\ UNCHANGED <<docType, mat, regions, extractedData, regionResult,
                 regionCalls>>
  /\ UNCHANGED <<handlerVars, validation, otherVars>>

\* the pattern loop writing into the region stage's map instead of a fresh one
RegexCanonicalMerging ==
  /\ pc = "regex"
  /\ LET fresh == applyPatterns(docType, ocrText)
         old   == IF IsNilMap(extractedData) THEN EmptyMap
                  ELSE extractedData[2]
     IN extractedData' =
          SomeMap([k \in (DOMAIN old) \cup (DOMAIN fresh) |->
                     IF k \in DOMAIN fresh THEN fresh[k] ELSE old[k]])
  /\ pc' = "alternates"
  /\ UNCHANGED <<docType, mat, regions, err, ocrText, ret, regionResult,
                 regionCalls, textCalls>>
  /\ UNCHANGED <<engines, handlerVars, validation, otherVars>>

\* Step 3, parseTextWithRegex: a fresh map filled by the pattern loop
RegexCanonical ==
  /\ pc = "regex"
  /\ extractedData' = SomeMap(applyPatterns(docType, ocrText))
  /\ pc' = "alternates"
  /\ UNCHANGED <<docType, mat, regions, err, ocrText, ret, regionResult,
                 regionCalls, textCalls>>
  /\ UNCHANGED <<engines, handlerVars, validation, otherVars>>

\* Step 3, parseTextWithRegex: the alternate patterns
RegexAlternates ==
  /\ pc = "alternates"
  /\ extractedData' = SomeMap(applyAlternates(docType, extractedData[2], ocrText))
  /\ pc' = "postprocess"
  /\ UNCHANGED <<docType, mat, regions, err, ocrText, ret, regionResult,
                 regionCalls, textCalls>>
  /\ UNCHANGED <<engines, handlerVars, validation, otherVars>>

\* Step 3, parseTextWithRegex: p.postProcessExtractedData(extractedData)
PostProcess ==
  /\ pc = "postprocess"
  /\ extractedData' = SomeMap(postProcessExtractedData(docType, extractedData[2]))
  /\ pc' = "validate"
  /\ UNCHANGED <<docType, mat, regions, err, ocrText, ret, regionResult,
                 regionCalls, textCalls>>
  /\ UNCHANGED <<engines, handlerVars, validation, otherVars>>

\* the wrapper Parse puts around a fallback validation error
validationWrap(doc) ==
  IF doc = DL THEN <<"validation failed for driver's license data">>
  ELSE <<"validation failed for individual number card data">>

\* Step 4 that returns the map even when validation failed
ParseValidateLenient ==
  /\ pc = "validate"
  /\ ret' = [data |-> extractedData, err |-> NoError]
  /\ pc' = "done"
  /\ UNCHANGED <<docType, mat, regions, extractedData, err, ocrText,
                 regionResult, regionCalls, textCalls>>
  /\ UNCHANGED <<engines, handlerVars, validation, otherVars>>

\* Step 4: validate the fallback data and return
ParseValidate ==
  /\ pc = "validate"
  /\ LET verr == validateExtractedData(docType, extractedData[2])
     IN IF verr /= NoError
        THEN ret' = [data |-> NilMap, err |-> validationWrap(docType) \o verr]
        ELSE ret' = [data |-> extractedData, err |-> NoError]
  /\ pc' = "done"
  /\ UNCHANGED <<docType, mat, regions, extractedData, err, ocrText,
                 regionResult, regionCalls, textCalls>>
  /\ UNCHANGED <<engines, handlerVars, validation, otherVars>>

\* the caller has taken the result; the parser is idle again
Return ==
  /\ pc = "done"
  /\ pc' = "idle"
  /\ UNCHANGED <<docType, mat, regions, extractedData, err, ocrText, ret,
                 regionResult, regionCalls, textCalls>>
  /\ UNCHANGED <<engines, handlerVars, validation, otherVars>>

(***************************************************************************)
(* The request orchestrator (handler.go, types.go, imageprocessor).        *)
(*                                                                         *)
(* An image string is a sequence of atoms: " " and "," stand for           *)
(* themselves, "data:image/png;" is the head of a data URL, "base64" is    *)
(* that word, "not-base64!" is text outside the base64 alphabet, a         *)
(* 4-character atom is one base64 quantum and Bulk is a run of "AAAA"      *)
(* quanta.  A message is a sequence of fragments, so that                  *)
(* strings.Contains on a message is Contains on its fragments.             *)
(***************************************************************************)
MaxImageSize == 10 * 1024 * 1024

\* decoded size of the run of "AAAA" quanta the atom Bulk stands for
BulkBytes == MaxImageSize - 1

Bulk == "AAAA..."

\* the bytes a base64 quantum decodes to
Quantum(a) ==
  CASE a = "iVBO" -> <<137, 80, 78>>
    [] a = "Rw0K" -> <<71, 13, 10>>
    [] a = "Ggo=" -> <<26, 10>>
    [] a = "/9j/" -> <<255, 216, 255>>
    [] a = "4AAQ" -> <<224, 0, 16>>
    [] a = "AAAA" -> <<0, 0, 0>>
    [] OTHER -> <<>>

Quanta == {"iVBO", "Rw0K", "Ggo=", "/9j/", "4AAQ", "AAAA"}

\* quanta that end in padding may only come last
Padded == {"Ggo="}

\* the first bytes of a byte slice, enough for the signature checks
FirstBytes(b) == IF Len(b) > 8 THEN SubSeq(b, 1, 8) ELSE b

\* base64.StdEncoding.DecodeString: ok, and the length and first bytes of
\* the decoded data
RECURSIVE DecodeFrom(_, _, _, _)
DecodeFrom(s, i, n, head) ==
  IF i > Len(s) THEN [ok |-> TRUE, len |-> n, head |-> head]
  ELSE IF s[i] = Bulk
       THEN DecodeFrom(s, i + 1, n + BulkBytes,
                       FirstBytes(head \o <<0, 0, 0, 0, 0, 0, 0, 0>>))
  ELSE IF s[i] \in Quanta /\ (s[i] \in Padded => i = Len(s))
       THEN DecodeFrom(s, i + 1, n + Len(Quantum(s[i])),
                       FirstBytes(head \o Quantum(s[i])))
  ELSE [ok |-> FALSE, len |-> 0, head |-> <<>>]

DecodeString(s) == DecodeFrom(s, 1, 0, <<>>)

\* strings.Split(s, sep) for a non-empty sep
RECURSIVE SplitFrom(_, _, _, _)
SplitFrom(s, sep, i, cur) ==
  IF i > Len(s) THEN <<cur>>
  ELSE IF HasPrefixAt(s, sep, i)
       THEN <<cur>> \o SplitFrom(s, sep, i + Len(sep), <<>>)
       ELSE SplitFrom(s, sep, i + 1, Append(cur, s[i]))

Split(s, sep) == SplitFrom(s, sep, 1, <<>>)

isValidDocumentType(documentType) ==
  documentType = <<DL>> \/ documentType = <<INC>>

isValidImageFormat(data) ==
  IF data.len < 4 THEN FALSE
  ELSE IF /\ data.len >= 8
          /\ data.head[1] = 137 /\ data.head[2] = 80
          /\ data.head[3] = 78 /\ data.head[4] = 71
       THEN TRUE
  ELSE IF /\ data.len >= 3
          /\ data.head[1] = 255 /\ data.head[2] = 216 /\ data.head[3] = 255
       THEN TRUE
  ELSE FALSE

\* the payload validateBase64Image decodes
validatedPayload(imageData) ==
  IF Contains(imageData, <<",">>) THEN Split(imageData, <<",">>)[2]
  ELSE imageData

validateBase64Image(imageData) ==
  LET decodedData == DecodeString(validatedPayload(imageData))
  IN IF ~decodedData.ok THEN <<"invalid base64 encoding">>
     ELSE IF decodedData.len > MaxImageSize
          THEN <<"image size exceeds maximum limit", " of 10485760 bytes">>
     ELSE IF ~isValidImageFormat(decodedData)
          THEN <<"unsupported image format",
                 ", only PNG and JPEG are supported">>
     ELSE NoError

\* OCRRequest.Validate: NoError, or the message of the first failing check
Validate(r) ==
  IF TrimSpace(r.Image) = <<>> THEN <<"image ", "field is required">>
  ELSE IF TrimSpace(r.DocumentType) = <<>>
       THEN <<"documentType ", "field is required">>
  ELSE IF ~isValidDocumentType(r.DocumentType)
       THEN <<"unsupported document type", ": ">> \o r.DocumentType
  ELSE validateBase64Image(r.Image)

getErrorStatusCode(errMsg) ==
  IF \/ Contains(errMsg, <<"field is required">>)
     \/ Contains(errMsg, <<"invalid base64 encoding">>)
  THEN 400
  ELSE IF \/ Contains(errMsg, <<"unsupported document type">>)
          \/ Contains(errMsg, <<"unsupported image format">>)
          \/ Contains(errMsg, <<"image size exceeds maximum limit">>)
       THEN 422
  ELSE 400

\* the payload Base64Decoder.DecodeBase64 decodes
decodedPayload(base64Image) ==
  IF Contains(base64Image, <<"base64", ",">>)
  THEN Split(base64Image, <<"base64", ",">>)[2]
  ELSE base64Image

\* Base64Decoder.DecodeBase64: the decoded data or an error
DecodeBase64(base64Image) ==
  IF base64Image = <<>>
  THEN [data |-> DecodeString(<<>>), err |-> <<"base64 image string is empty">>]
  ELSE LET imageData == DecodeString(decodedPayload(base64Image))
       IN IF ~imageData.ok
          THEN [data |-> imageData,
                err |-> <<"failed to decode base64 string",
                          "illegal base64 data">>]
          ELSE IF imageData.len = 0
          THEN [data |-> imageData, err |-> <<"decoded image data is empty">>]
          ELSE [data |-> imageData, err |-> NoError]

\* ImageProcessor.ProcessImage: the Mat (its length class) or an error
ProcessImage(base64Image) ==
  LET d == DecodeBase64(base64Image)
  IN IF d.err /= NoError
     THEN [mat |-> 0, err |-> <<"failed to decode base64 image">> \o d.err]
     ELSE [mat |-> IF d.data.len = 0 THEN 0 ELSE 1, err |-> NoError]

\* NewParserFactory: the registry, a parser being named by its document type
NewParserFactory == [k \in {<<DL>>, <<INC>>} |-> k[1]]

NoParser == ""

\* GetParser that falls back to the first registered parser
GetParserDefaulting(pf, documentType) ==
  IF documentType \notin DOMAIN pf
  THEN [parser |-> DL, err |-> NoError]
  ELSE [parser |-> pf[documentType], err |-> NoError]

\* ParserFactory.GetParser on registry pf
GetParser(pf, documentType) ==
  IF documentType \notin DOMAIN pf
  THEN [parser |-> NoParser,
        err |-> <<"UnsupportedDocumentTypeError">> \o documentType]
  ELSE [parser |-> pf[documentType], err |-> NoError]

(***************************************************************************)
(* parser.Parse as one call of the orchestrator's worker                   *)
(***************************************************************************)
MaxHandlerRegions == 1

\* the fragment lists the engine returns to a worker's Parse call
HandlerRegionLists ==
  {[i \in 1..Len(q) |-> RegionInfo(q[i])] :
     q \in SeqsUpTo(RegionTexts, MaxHandlerRegions)}

\* what parseWithRegionDetection returns to Parse
regionStageReturns(doc, m, lists) ==
  IF m = 0
  THEN {[data |-> NilMap,
         err |-> <<"failed to convert Mat to bytes", "empty Mat data">>]}
  ELSE {[data |-> NilMap,
         err |-> <<"failed to extract regions",
                   "tesseract TSV command failed">>]}
       \cup {[data |-> SomeMap(regionFields(doc, rs)), err |-> NoError] :
               rs \in lists}

\* what steps 2 to 4 of Parse return
fallbackStageReturns(doc, m) ==
  {IF out.err /= NoError
   THEN [data |-> NilMap,
         err |-> <<"failed to extract text via OCR">> \o out.err]
   ELSE LET data == parseTextWithRegex(doc, out.text)
            verr == validateExtractedData(doc, data)
        IN IF verr /= NoError
           THEN [data |-> NilMap, err |-> validationWrap(doc) \o verr]
           ELSE [data |-> SomeMap(data), err |-> NoError] :
   out \in (IF doc = DL THEN extractTextUsingOCRDL(m)
            ELSE extractTextUsingOCR(m))}

\* every (map, error) a Parse call of parser doc on Mat m can return
ParseReturns(doc, m, lists) ==
  LET stage1   == regionStageReturns(doc, m, lists)
      accepted == {r \in stage1 : regionAccepted(doc, r.data, r.err)}
  IN accepted
     \cup (IF accepted /= stage1 THEN fallbackStageReturns(doc, m) ELSE {})

(***************************************************************************)
(* HandleOCR, its worker goroutine and the request context                 *)
(***************************************************************************)
\* image strings a client may send
PNG == <<"iVBO", "Rw0K", "Ggo=">>

JPEG == <<"/9j/", "4AAQ">>

Images ==
  { <<>>,
    <<" ">>,
    PNG,
    JPEG,
    <<"/9j/">>,
    <<"AAAA", "AAAA">>,
    <<"not-base64!">>,
    <<"/9j/", Bulk>>,
    <<"data:image/png;", "base64", ",">> \o PNG,
    <<"data:image/png;", ",">> \o PNG }

RequestedTypes ==
  {<<DL>>, <<INC>>, <<>>, <<" ">>, <<"passport_us">>, <<"field is required">>}

OCRRequests == [Image : Images, DocumentType : RequestedTypes]

\* an HTTP request: its method and, for a body, whether it is JSON of an
\* OCRRequest
HTTPRequests ==
  {[Method |-> "OPTIONS", Json |-> FALSE, Body |-> <<>>],
   [Method |-> "GET", Json |-> FALSE, Body |-> <<>>],
   [Method |-> "POST", Json |-> FALSE, Body |-> <<>>]}
  \cup {[Method |-> "POST", Json |-> TRUE, Body |-> <<r>>] : r \in OCRRequests}

NoRequest == [Image |-> <<>>, DocumentType |-> <<>>]

NoOCRResponse == [DocumentType |-> <<>>, Data |-> NilMap]

NoWorkerReturn == [response |-> NoOCRResponse, err |-> NoError]

NoResponse == [code |-> 0, message |-> <<>>, body |-> NoOCRResponse]

HandlerInit ==
  /\ hpc = "idle"
  /\ req = NoRequest
  /\ ctxErr = "nil"
  /\ wpc = "none"
  /\ parser = NoParser
  /\ workerRet = NoWorkerReturn
  /\ resultChan = <<>>
  /\ errorChan = <<>>
  /\ waitEnded = "none"
  /\ selected = NoWorkerReturn
  /\ response = NoResponse
  /\ parseCalls = 0

\* HandleOCR up to the start of the worker goroutine
HandleOCR(r) ==
  /\ hpc = "idle"
  /\ IF r.Method = "OPTIONS"
     THEN /\ response' = [NoResponse EXCEPT !.code = 200]
          /\ hpc' = "responded"
          /\ UNCHANGED <<req, wpc>>
     ELSE IF r.Method /= "POST"
     THEN /\ response' = [NoResponse EXCEPT !.code = 405,
                            !.message = <<"Method not allowed. Use POST.">>]
          /\ hpc' = "responded"
          /\ UNCHANGED <<req, wpc>>
     ELSE IF ~r.Json
     THEN /\ response' = [NoResponse EXCEPT !.code = 400,
                            !.message = <<"Invalid JSON format: ">>]
          /\ hpc' = "responded"
          /\ UNCHANGED <<req, wpc>>
     ELSE /\ req' = r.Body[1]
          /\ IF Validate(r.Body[1]) /= NoError
             THEN /\ response' =
                       [NoResponse EXCEPT
                          !.code = getErrorStatusCode(Validate(r.Body[1])),
                          !.message = Validate(r.Body[1])]
                  /\ hpc' = "responded"
                  /\ wpc' = wpc
             ELSE /\ response' = response
                  /\ hpc' = "waiting"
                  /\ wpc' = "start"
  /\ UNCHANGED <<ctxErr, parser, workerRet, resultChan, errorChan, waitEnded,
                 selected, parseCalls>>
  /\ UNCHANGED <<parserVars, validation, otherVars>>

\* a caller inside the package invokes processOCRRequest itself
CallProcessOCRRequest(r) ==
  /\ hpc = "idle"
  /\ hpc' = "direct"
  /\ req' = r
  /\ wpc' = "start"
  /\ UNCHANGED <<ctxErr, parser, workerRet, resultChan, errorChan, waitEnded,
                 selected, response, parseCalls>>
  /\ UNCHANGED <<parserVars, validation, otherVars>>

\* the 30-second deadline of the request context passes
DeadlineExpires ==
  /\ hpc \in {"waiting", "returned"}
  /\ ctxErr = "nil"
  /\ ctxErr' = "deadline"
  /\ UNCHANGED <<hpc, req, wpc, parser, workerRet, resultChan, errorChan,
                 waitEnded, selected, response, parseCalls>>
  /\ UNCHANGED <<parserVars, validation, otherVars>>

\* the parent context r.Context() is cancelled (the client went away)
ClientCancels ==
  /\ hpc \in {"waiting", "returned"}
  /\ ctxErr = "nil"
  /\ ctxErr' = "canceled"
  /\ UNCHANGED <<hpc, req, wpc, parser, workerRet, resultChan, errorChan,
                 waitEnded, selected, response, parseCalls>>
  /\ UNCHANGED <<parserVars, validation, otherVars>>

\* make(chan *OCRResponse, 1) and make(chan error, 1)
chanCapacity == 1

\* processOCRRequest returns rv: a direct caller has its value, the
\* goroutine goes on to its send statement
workerReturns(rv) ==
  /\ workerRet' = rv
  /\ wpc' = IF hpc = "direct" THEN "exit" ELSE "send"
  /\ UNCHANGED <<resultChan, errorChan>>

\* processOCRRequest step 1: h.imageProcessor.ProcessImage(req.Image)
WorkerProcessImage ==
  /\ wpc = "start"
  /\ LET p == ProcessImage(req.Image)
     IN IF p.err /= NoError
        THEN workerReturns([response |-> NoOCRResponse,
                            err |-> <<"failed to process image">> \o p.err])
        ELSE /\ wpc' = "getParser"
             /\ UNCHANGED <<workerRet, resultChan, errorChan>>
  /\ UNCHANGED <<hpc, req, ctxErr, parser, waitEnded, selected, response,
                 parseCalls>>
  /\ UNCHANGED <<parserVars, validation, otherVars>>

\* processOCRRequest step 2: h.parserFactory.GetParser(req.DocumentType)
WorkerGetParser ==
  /\ wpc = "getParser"
  /\ LET g == GetParser(NewParserFactory, req.DocumentType)
     IN /\ parser' = g.parser
        /\ IF g.err /= NoError
           THEN workerReturns([response |-> NoOCRResponse,
                               err |-> <<"failed to get parser">> \o g.err])
           ELSE /\ wpc' = "parse"
                /\ UNCHANGED <<workerRet, resultChan, errorChan>>
  /\ UNCHANGED <<hpc, req, ctxErr, waitEnded, selected, response, parseCalls>>
  /\ UNCHANGED <<parserVars, validation, otherVars>>

\* processOCRRequest steps 3 and 4: parser.Parse(processedMat), response
WorkerParse ==
  /\ wpc = "parse"
  /\ parseCalls' = parseCalls + 1
  /\ \E out \in ParseReturns(parser, ProcessImage(req.Image).mat,
                             HandlerRegionLists) :
       IF out.err /= NoError
       THEN workerReturns([response |-> NoOCRResponse,
                           err |-> <<"failed to parse document">> \o out.err])
       ELSE workerReturns([response |-> [DocumentType |-> req.DocumentType,
                                         Data |-> out.data],
                           err |-> NoError])
  /\ UNCHANGED <<hpc, req, ctxErr, parser, waitEnded, selected, response>>
  /\ UNCHANGED <<parserVars, validation, otherVars>>

\* a send on channels made without buffer: it completes only by handing the
\* value to the handler while the handler still waits in its select
WorkerSendUnbuffered ==
  /\ wpc = "send"
  /\ hpc = "waiting"
  /\ IF workerRet.err /= NoError
     THEN /\ selected' = [response |-> NoOCRResponse, err |-> workerRet.err]
          /\ waitEnded' = "error"
     ELSE /\ selected' = [response |-> workerRet.response, err |-> NoError]
          /\ waitEnded' = "result"
  /\ hpc' = "returned"
  /\ wpc' = "exit"
  /\ UNCHANGED <<req, ctxErr, parser, workerRet, resultChan, errorChan,
                 response, parseCalls>>
  /\ UNCHANGED <<parserVars, validation, otherVars>>

\* the goroutine's "errorChan <- err" or "resultChan <- response": the send
\* proceeds when the channel's buffer has room, whatever the handler does
WorkerSend ==
  /\ wpc = "send"
  /\ IF workerRet.err /= NoError
     THEN /\ Len(errorChan) < chanCapacity
          /\ errorChan' = Append(errorChan, workerRet.err)
          /\ resultChan' = resultChan
     ELSE /\ Len(resultChan) < chanCapacity
          /\ resultChan' = Append(resultChan, workerRet.response)
          /\ errorChan' = errorChan
  /\ wpc' = "exit"
  /\ UNCHANGED <<hpc, req, ctxErr, parser, workerRet, waitEnded, selected,
                 response, parseCalls>>
  /\ UNCHANGED <<parserVars, validation, otherVars>>

\* ctx.Err() as an error value
ctxError(e) ==
  IF e = "deadline" THEN <<"context deadline exceeded">>
  ELSE <<"context canceled">>

\* a select that waits for the worker only
processOCRRequestWithTimeoutBlocking ==
  /\ hpc = "waiting"
  /\ \/ /\ resultChan /= <<>>
        /\ selected' = [response |-> Head(resultChan), err |-> NoError]
        /\ resultChan' = Tail(resultChan)
        /\ waitEnded' = "result"
        /\ UNCHANGED errorChan
     \/ /\ errorChan /= <<>>
        /\ selected' = [response |-> NoOCRResponse, err |-> Head(errorChan)]
        /\ errorChan' = Tail(errorChan)
        /\ waitEnded' = "error"
        /\ UNCHANGED resultChan
  /\ hpc' = "returned"
  /\ UNCHANGED <<req, ctxErr, wpc, parser, workerRet, response, parseCalls>>
  /\ UNCHANGED <<parserVars, validation, otherVars>>

\* the select of processOCRRequestWithTimeout: any ready case may be taken
processOCRRequestWithTimeout ==
  /\ hpc = "waiting"
  /\ \/ /\ resultChan /= <<>>
        /\ selected' = [response |-> Head(resultChan), err |-> NoError]
        /\ resultChan' = Tail(resultChan)
        /\ waitEnded' = "result"
        /\ UNCHANGED errorChan
     \/ /\ errorChan /= <<>>
        /\ selected' = [response |-> NoOCRResponse, err |-> Head(errorChan)]
        /\ errorChan' = Tail(errorChan)
        /\ waitEnded' = "error"
        /\ UNCHANGED resultChan
     \/ /\ ctxErr /= "nil"
        /\ selected' = [response |-> NoOCRResponse, err |-> ctxError(ctxErr)]
        /\ waitEnded' = "done"
        /\ UNCHANGED <<resultChan, errorChan>>
  /\ hpc' = "returned"
  /\ UNCHANGED <<req, ctxErr, wpc, parser, workerRet, response, parseCalls>>
  /\ UNCHANGED <<parserVars, validation, otherVars>>

\* HandleOCR after processOCRRequestWithTimeout returned: write the response
HandleOCRRespond ==
  /\ hpc = "returned"
  /\ IF selected.err /= NoError
     THEN IF ctxErr = "deadline"
          THEN response' =
                 [NoResponse EXCEPT !.code = 408,
                    !.message = <<"Request timeout: processing exceeded 30 seconds">>]
          ELSE response' = [NoResponse EXCEPT !.code = 422,
                              !.message = selected.err]
     ELSE response' = [NoResponse EXCEPT !.code = 200,
                         !.body = selected.response]
  /\ hpc' = "responded"
  /\ UNCHANGED <<req, ctxErr, wpc, parser, workerRet, resultChan, errorChan,
                 waitEnded, selected, parseCalls>>
  /\ UNCHANGED <<parserVars, validation, otherVars>>

HandlerNext ==
  \/ \E r \in HTTPRequests : HandleOCR(r)
  \/ \E r \in OCRRequests : CallProcessOCRRequest(r)
  \/ DeadlineExpires
  \/ ClientCancels
  \/ WorkerProcessImage
  \/ WorkerGetParser
  \/ WorkerParse
  \/ WorkerSend
  \/ processOCRRequestWithTimeout
  \/ HandleOCRRespond

(***************************************************************************)
(* The parser registry (parser.go) under RegisterParser, GetParser and     *)
(* GetSupportedDocumentTypes calls.  A parser instance is named by the     *)
(* document type it was built for.                                         *)
(***************************************************************************)
MaxRegistrations == 3

\* a registration that leaves an existing entry in place
RegisterParserKeepingFirst(pf, documentType, p) ==
  [k \in (DOMAIN pf) \cup {documentType} |->
     IF k \in DOMAIN pf THEN pf[k] ELSE p]

\* pf.parsers[documentType] = parser
RegisterParser(pf, documentType, p) ==
  [k \in (DOMAIN pf) \cup {documentType} |->
     IF k = documentType THEN p ELSE pf[k]]

\* the slices GetSupportedDocumentTypes may return: one append per map key,
\* in the unspecified iteration order of the map
GetSupportedDocumentTypes(pf) ==
  {s \in [1..Cardinality(DOMAIN pf) -> DOMAIN pf] :
     \A i, j \in DOMAIN s : s[i] = s[j] => i = j}

\* document types and parser instances offered for registration
RegistrationTypes == {<<DL>>, <<INC>>, <<"passport_us">>}

ParserInstances == {DL, INC}

NoFactoryCall ==
  [op |-> "none", arg |-> <<>>,
   result |-> [parser |-> NoParser, err |-> NoError], types |-> <<>>]

\* factory := NewParserFactory()
FactoryInit ==
  /\ factory = NewParserFactory
  /\ registrations = <<>>
  /\ factoryCall = NoFactoryCall

\* a caller invokes pf.RegisterParser(t, p)
RegisterParserCall(t, p) ==
  /\ Len(registrations) < MaxRegistrations
  /\ factory' = RegisterParser(factory, t, p)
  /\ registrations' = Append(registrations, <<t, p>>)
  /\ factoryCall' = NoFactoryCall
  /\ UNCHANGED <<parserVars, handlerVars, validation, normVars, concVars>>

\* a caller invokes pf.GetParser(t)
GetParserCall(t) ==
  /\ factoryCall' = [NoFactoryCall EXCEPT !.op = "GetParser", !.arg = t,
                       !.result = GetParser(factory, t)]
  /\ UNCHANGED <<factory, registrations>>
  /\ UNCHANGED <<parserVars, handlerVars, validation, normVars, concVars>>

\* a caller invokes pf.GetSupportedDocumentTypes()
GetSupportedDocumentTypesCall ==
  /\ \E s \in GetSupportedDocumentTypes(factory) :
       factoryCall' = [NoFactoryCall EXCEPT
                         !.op = "GetSupportedDocumentTypes", !.types = s]
  /\ UNCHANGED <<factory, registrations>>
  /\ UNCHANGED <<parserVars, handlerVars, validation, normVars, concVars>>

FactoryNext ==
  \/ \E t \in RegistrationTypes, p \in ParserInstances :
       RegisterParserCall(t, p)
  \/ \E t \in RequestedTypes : GetParserCall(t)
  \/ GetSupportedDocumentTypesCall

(***************************************************************************)
(* postProcessExtractedData on its own, applied again to its own output    *)
(***************************************************************************)
MaxApplications == 2

NoNormalization ==
  [doc |-> DL, input |-> EmptyMap, prev |-> EmptyMap, data |-> EmptyMap,
   applied |-> 0]

(***************************************************************************)
(* Concurrent processOCRRequest calls: every HTTP request runs its own     *)
(* worker goroutine on the handler's one ParserFactory, so calls for the   *)
(* same document type run Parse on the same parser instance.               *)
(***************************************************************************)
MaxCalls == 2

CallIds == 1..MaxCalls

\* what the engine returns to the region stage of a concurrent call
ConcurrentRegionOutputs ==
  {[err |-> NoError, regions |-> <<RegionInfo(<<"yama", "ta">>)>>],
   [err |-> NoError,
    regions |-> <<RegionInfo(<<"higashi", "kyou", "to", "minato", "ku">>)>>]}

\* what the engine returns to the fallback stage of a concurrent call
ConcurrentTextOutputs ==
  {[err |-> <<"tesseract OCR command failed">>, text |-> <<>>],
   [err |-> NoError, text |-> NameLine],
   [err |-> NoError,
    text |-> <<"uji", "na", " ", "ta", "naka", "futo", "rou">>]}

NoCall ==
  [pc |-> "none", parser |-> NoParser, regionOut |-> <<>>, textOut |-> <<>>,
   extractedData |-> NilMap, ret |-> NoReturn]

ConcurrentInit == calls = [c \in CallIds |-> NoCall]

\* frame of every step of a concurrent call
concurrentFrame ==
  UNCHANGED <<parserVars, handlerVars, validation, factoryVars, normVars>>

\* processOCRRequest of call c: h.parserFactory.GetParser(req.DocumentType)
ConcurrentGetParser(c, t) ==
  /\ calls[c].pc = "none"
  /\ GetParser(factory, t).err = NoError
  /\ calls' = [calls EXCEPT ![c].pc = "region",
                            ![c].parser = GetParser(factory, t).parser]
  /\ concurrentFrame

\* Parse of call c, step 1: parseWithRegionDetection on a non-empty Mat
ConcurrentRegionStage(c) ==
  /\ calls[c].pc = "region"
  /\ \E out \in ConcurrentRegionOutputs :
       calls' = [calls EXCEPT
                   ![c].pc = "regionCheck",
                   ![c].regionOut = <<out>>,
                   ![c].extractedData =
                     IF out.err /= NoError THEN NilMap
                     ELSE SomeMap(regionFields(calls[c].parser, out.regions))]
  /\ concurrentFrame

\* Parse of call c, step 1.5
ConcurrentRegionCheck(c) ==
  /\ calls[c].pc = "regionCheck"
  /\ IF regionAccepted(calls[c].parser, calls[c].extractedData,
                       calls[c].regionOut[1].err)
     THEN calls' = [calls EXCEPT
                      ![c].pc = "done",
                      ![c].ret = [data |-> calls[c].extractedData,
                                  err |-> NoError]]
     ELSE calls' = [calls EXCEPT ![c].pc = "ocr"]
  /\ concurrentFrame

\* Parse of call c, step 2: extractTextUsingOCR
ConcurrentExtractText(c) ==
  /\ calls[c].pc = "ocr"
  /\ \E out \in ConcurrentTextOutputs :
       IF out.err /= NoError
       THEN calls' = [calls EXCEPT
                        ![c].pc = "done",
                        ![c].textOut = <<out>>,
                        ![c].ret =
                          [data |-> NilMap,
                           err |-> <<"failed to extract text via OCR">>
                                   \o out.err]]
       ELSE calls' = [calls EXCEPT ![c].pc = "regex", ![c].textOut = <<out>>]
  /\ concurrentFrame

\* step 3 keeping the FieldMap in the parser instance: every call on that
\* parser sees the map written last
ConcurrentParseTextWithRegexSharedMap(c) ==
  /\ calls[c].pc = "regex"
  /\ LET data == SomeMap(parseTextWithRegex(calls[c].parser,
                                            calls[c].textOut[1].text))
     IN calls' = [k \in CallIds |->
                    IF k = c
                    THEN [calls[k] EXCEPT !.pc = "validate",
                                          !.extractedData = data]
                    ELSE IF calls[k].parser = calls[c].parser
                    THEN [calls[k] EXCEPT !.extractedData = data]
                    ELSE calls[k]]
  /\ concurrentFrame

\* Parse of call c, step 3: parseTextWithRegex builds a fresh map
ConcurrentParseTextWithRegex(c) ==
  /\ calls[c].pc = "regex"
  /\ calls' = [calls EXCEPT
                 ![c].pc = "validate",
                 ![c].extractedData =
                   SomeMap(parseTextWithRegex(calls[c].parser,
                                              calls[c].textOut[1].text))]
  /\ concurrentFrame

\* Parse of call c, step 4
ConcurrentValidate(c) ==
  /\ calls[c].pc = "validate"
  /\ LET verr == validateExtractedData(calls[c].parser,
                                       calls[c].extractedData[2])
     IN calls' = [calls EXCEPT
                    ![c].pc = "done",
                    ![c].ret =
                      IF verr /= NoError
                      THEN [data |-> NilMap,
                            err |-> validationWrap(calls[c].parser) \o verr]
                      ELSE [data |-> calls[c].extractedData,
                            err |-> NoError]]
  /\ concurrentFrame

ConcurrentNext ==
  \E c \in CallIds :
    \/ \E t \in RequestedTypes : ConcurrentGetParser(c, t)
    \/ ConcurrentRegionStage(c)
    \/ ConcurrentRegionCheck(c)
    \/ ConcurrentExtractText(c)
    \/ ConcurrentParseTextWithRegex(c)
    \/ ConcurrentValidate(c)

OtherInit ==
  /\ FactoryInit
  /\ normalization = NoNormalization
  /\ ConcurrentInit

(***************************************************************************)
(* validateExtractedData on its own, applied to a given FieldMap           *)
(***************************************************************************)
Grouped12 ==
  <<"1", "2", "3", "4", "-", "5", "6", "7", "8", "-", "9", "0", "1", "2">>

Spaced12 ==
  <<"1", "2", "3", "4", " ", "5", "6", "7", "8", " ", "9", "0", "1", "2">>

Digits11 == <<"1", "2", "3", "4", "5", "6", "7", "8", "9", "0", "1">>

\* twelve one-byte characters, none of them a digit
Slashes12 == [i \in 1..12 |-> "/"]

\* the values a field of a given FieldMap may hold
FieldValues(k) ==
  CASE k = "name" -> {<<>>, <<" ">>, <<"yama", "ta">>}
    [] k \in {"license_number", "individual_number"} ->
         {Number12, Grouped12, Spaced12, Digits11, Slashes12}
    [] k = "gender" -> {<<"otoko">>, <<"onna">>, <<"otoko", "saga">>}
    [] k = "address" -> {<<>>, <<"oo", "saka", "hu", "oo", "saka", "shi">>}

FieldKeys == {"name", "license_number", "individual_number", "gender", "address"}

\* every FieldMap over a subset of FieldKeys
FieldMaps ==
  UNION {{m \in [K -> UNION {FieldValues(k) : k \in K}] :
            \A k \in K : m[k] \in FieldValues(k)} : K \in SUBSET FieldKeys}

NoValidation == [state |-> "none", doc |-> DL, data |-> EmptyMap, err |-> NoError]

ValidateInit ==
  /\ ParserInit
  /\ HandlerInit
  /\ OtherInit
  /\ validation \in {[state |-> "called", doc |-> d, data |-> m, err |-> NoError] :
                       d \in DocumentTypes, m \in FieldMaps}

\* p.validateExtractedData(data) runs and returns
validateCall ==
  /\ validation.state = "called"
  /\ validation' = [validation EXCEPT
                      !.state = "returned",
                      !.err = validateExtractedData(validation.doc,
                                                    validation.data)]
  /\ UNCHANGED <<parserVars, handlerVars, otherVars>>

ValidateNext == validateCall

\* postProcessExtractedData is about to be applied to a given FieldMap
NormalizeInit ==
  /\ ParserInit
  /\ HandlerInit
  /\ validation = NoValidation
  /\ FactoryInit
  /\ ConcurrentInit
  /\ normalization \in {[doc |-> d, input |-> m, prev |-> m, data |-> m,
                         applied |-> 0] : d \in DocumentTypes, m \in FieldMaps}

\* p.postProcessExtractedData(data): the map is rewritten in place
postProcessCall ==
  /\ normalization.applied < MaxApplications
  /\ normalization' =
       [normalization EXCEPT
          !.prev = normalization.data,
          !.data = postProcessExtractedData(normalization.doc,
                                            normalization.data),
          !.applied = @ + 1]
  /\ UNCHANGED <<parserVars, handlerVars, validation, factoryVars, concVars>>

NormalizeNext == postProcessCall

Init ==
  /\ ParserInit
  /\ HandlerInit
  /\ validation = NoValidation
  /\ OtherInit

Next ==
  \/ \E d \in DocumentTypes, m \in Mats : Parse(d, m)
  \/ parseWithRegionDetection
  \/ ParseRegionCheck
  \/ ParseExtractText
  \/ RegexCanonical
  \/ RegexAlternates
  \/ PostProcess
  \/ ParseValidate
  \/ Return

Spec == Init /\ [][Next]_vars

\* one HTTP request (or one direct call of processOCRRequest) at a time
HandlerSpec == Init /\ [][HandlerNext]_vars

\* the same with the scheduling the Go runtime gives the handler goroutine:
\* a select with a ready case is eventually executed and a handler that can
\* write its response eventually does.  Nothing is assumed of the worker,
\* whose OCR subprocess may run arbitrarily long.
HandlerFairSpec ==
  /\ HandlerSpec
  /\ WF_vars(processOCRRequestWithTimeout)
  /\ WF_vars(HandleOCRRespond)

\* HandlerSpec with the scheduling the Go runtime gives the worker
\* goroutine at its send statement: a send that can proceed is executed.
\* Nothing is assumed of the OCR work before processOCRRequest returns.
WorkerFairSpec == HandlerSpec /\ WF_vars(WorkerSend)

\* one validateExtractedData call
ValidateSpec == ValidateInit /\ [][ValidateNext]_vars

\* calls on one ParserFactory
FactorySpec == Init /\ [][FactoryNext]_vars

\* repeated postProcessExtractedData calls on one FieldMap
NormalizeSpec == NormalizeInit /\ [][NormalizeNext]_vars

\* MaxCalls processOCRRequest calls interleaved step by step
ConcurrentSpec == Init /\ [][ConcurrentNext]_vars

(***************************************************************************)
(* Properties                                                              *)
(***************************************************************************)
\* the region stage of the current call produced a result Parse accepts
RegionStageAccepted ==
  /\ pc \in {"regionCheck", "ocr", "regex", "alternates", "postprocess",
             "validate", "done"}
  /\ regionResult.err = NoError
  /\ MapLen(regionResult.data) > 0
  /\ validateExtractedData(docType, regionResult.data[2]) = NoError

\* the region stage of the current call ended in one of its four failures
RegionStageFailed ==
  /\ pc \in {"regionCheck", "ocr", "regex", "alternates", "postprocess",
             "validate", "done"}
  /\ \/ regionResult.err /= NoError
     \/ MapLen(regionResult.data) = 0
     \/ validateExtractedData(docType, regionResult.data[2]) /= NoError

\* what the fallback stage alone yields for the flat-text outcome of the call
FallbackOutcome ==
  IF err /= NoError
  THEN [data |-> NilMap, err |-> <<"failed to extract text via OCR">> \o err]
  ELSE LET data == parseTextWithRegex(docType, ocrText)
           verr == validateExtractedData(docType, data)
       IN IF verr /= NoError
          THEN [data |-> NilMap, err |-> validationWrap(docType) \o verr]
          ELSE [data |-> SomeMap(data), err |-> NoError]

\* C1: when the region stage yields a non-empty FieldMap that passes
\* validation, Parse returns exactly that FieldMap with no error, and the
\* call never requests flat text (extractTextUsingOCR is not invoked).
C1_RegionSuccessReturnsWithoutFallback ==
  RegionStageAccepted =>
    /\ textCalls = 0
    /\ pc \in {"regionCheck", "done"}
    /\ pc = "done" => ret = [data |-> regionResult.data, err |-> NoError]

C1_Witness ==
  /\ pc = "done"
  /\ RegionStageAccepted
  /\ ret.data = regionResult.data
  /\ Cardinality(DOMAIN ret.data[2]) >= 2

\* C2: when the region stage produced a FieldMap that Parse rejected, every
\* key/value of the map Parse finally returns comes from the fallback
\* extraction of the flat text; nothing of the region map is carried over.
C2_NoMergeAfterRejectedRegion ==
  (/\ pc = "done"
   /\ regionResult.err = NoError
   /\ MapLen(regionResult.data) > 0
   /\ RegionStageFailed
   /\ ret.err = NoError)
  => LET fallback == parseTextWithRegex(docType, ocrText)
     IN /\ ~IsNilMap(ret.data)
        /\ \A k \in DOMAIN ret.data[2] :
             k \in DOMAIN fallback /\ ret.data[2][k] = fallback[k]

C2_Witness ==
  /\ pc = "done"
  /\ regionResult.err = NoError
  /\ MapLen(regionResult.data) > 0
  /\ RegionStageFailed
  /\ ret.err = NoError
  /\ \E k \in DOMAIN regionResult.data[2] : k \notin DOMAIN ret.data[2]

\* C3: every failure of the region stage (Mat-to-bytes error, ExtractRegions
\* error, empty FieldMap, FieldMap failing validation) is swallowed: Parse
\* runs the fallback stage, what it returns is what the fallback stage alone
\* yields, and the region stage's error is never the one returned.
C3_RegionFailureSwallowed ==
  (pc = "done" /\ RegionStageFailed)
  => /\ textCalls = 1
     /\ ret = FallbackOutcome
     /\ ret.err /= NoError =>
          /\ ret.err /= regionResult.err
          /\ Head(ret.err) \in {"failed to extract text via OCR",
                                "validation failed for driver's license data",
                                "validation failed for individual number card data"}

C3_Witness ==
  /\ pc = "done"
  /\ RegionStageFailed
  /\ regionResult.err /= NoError
  /\ mat /= 0
  /\ ret.err = NoError

\* C4: once the fallback stage is entered, a failure of flat text extraction
\* or a validation failure of the fallback FieldMap makes Parse return an
\* error and a nil FieldMap; Parse never returns a FieldMap that fails
\* validateExtractedData.
C4_FallbackFailureIsFatal ==
  pc = "done" =>
    /\ (textCalls = 1 /\ err /= NoError) =>
         (ret.err /= NoError /\ IsNilMap(ret.data))
    /\ (textCalls = 1 /\ err = NoError
        /\ validateExtractedData(docType, extractedData[2]) /= NoError) =>
         (ret.err /= NoError /\ IsNilMap(ret.data))
    /\ ret.err /= NoError => IsNilMap(ret.data)
    /\ ret.err = NoError =>
         /\ ~IsNilMap(ret.data)
         /\ validateExtractedData(docType, ret.data[2]) = NoError

C4_Witness ==
  /\ pc = "done"
  /\ textCalls = 1
  /\ err = NoError
  /\ validateExtractedData(docType, extractedData[2]) /= NoError
  /\ IsNilMap(ret.data)

\* C5: every FieldMap Parse returns without error contains every required
\* field with a value that is non-empty after trimming whitespace.
C5_RequiredFieldsInResult ==
  (pc = "done" /\ ret.err = NoError) =>
    /\ ~IsNilMap(ret.data)
    /\ \A f \in RequiredFields :
         /\ f \in DOMAIN ret.data[2]
         /\ TrimSpace(ret.data[2][f]) /= <<>>

C5_Witness ==
  /\ pc = "done"
  /\ ret.err = NoError
  /\ textCalls = 1
  /\ "name" \in DOMAIN ret.data[2]
  /\ "name" \notin DOMAIN applyPatterns(docType, ocrText)

\* the numeric-ID field of a document type
NumericIdField(doc) ==
  IF doc = DL THEN "license_number" ELSE "individual_number"

\* exactly 12 decimal digits once spaces and hyphens are removed
TwelveDigits(v) ==
  LET stripped == ReplaceAll(ReplaceAll(v, <<" ">>, <<>>), <<"-">>, <<>>)
  IN /\ Len(stripped) = 12
     /\ \A i \in 1..Len(stripped) : stripped[i] \in Digits

\* C6: in every FieldMap Parse returns without error, the numeric-ID field
\* of the document type, if present, consists of exactly 12 decimal digits
\* once spaces and hyphens are removed.
C6_NumericIdTwelveDigits ==
  (pc = "done" /\ ret.err = NoError
   /\ NumericIdField(docType) \in DOMAIN ret.data[2])
  => TwelveDigits(ret.data[2][NumericIdField(docType)])

C6_Witness ==
  /\ pc = "done"
  /\ ret.err = NoError
  /\ textCalls = 1
  /\ NumericIdField(docType) \in DOMAIN ret.data[2]
  /\ Contains(ret.data[2][NumericIdField(docType)], <<" ">>)

DateFields == {"birth_date", "issue_date", "expiry_date"}

\* C7: in every FieldMap Parse returns without error, each date-like field
\* that is present contains both the year marker and the month marker.
C7_DatesHaveYearAndMonth ==
  (pc = "done" /\ ret.err = NoError) =>
    \A f \in DateFields \cap DOMAIN ret.data[2] :
      /\ Contains(ret.data[2][f], <<"nen">>)
      /\ Contains(ret.data[2][f], <<"gatsu">>)

WireVocabulary ==
  {"name", "address", "birth_date", "license_number", "issue_date",
   "expiry_date", "individual_number", "gender"}

\* C8: every key of a FieldMap Parse returns without error belongs to the
\* fixed wire vocabulary; pattern-table keys such as name_alt and helper
\* keys never appear as output keys.
C8_KeysInWireVocabulary ==
  (pc = "done" /\ ret.err = NoError) =>
    DOMAIN ret.data[2] \subseteq WireVocabulary

\* fragment r, dispatched on its own, sets sub-field f
Claims(doc, r, f) == f \in DOMAIN dispatchAll(doc, EmptyMap, <<r>>)

DispatchSubFields ==
  {"address", "birth_date", "issue_date", "expiry_date", "license_number",
   "individual_number"}

\* C9: in the region stage's dispatch the first valid fragment, in
\* OCR-returned order, that claims a sub-field determines its value; a
\* later fragment claiming the same sub-field never replaces it.
C9_FirstFragmentWins ==
  (pc = "regionCheck" /\ regionResult.err = NoError) =>
    \A f \in DispatchSubFields : \A i \in 1..Len(regions) :
      (/\ Claims(docType, regions[i], f)
       /\ \A j \in 1..(i - 1) : ~Claims(docType, regions[j], f))
      => extractedData[2][f] = regions[i].Text

AlternatePairs ==
  {<<"name", "name_alt">>, <<"birth_date", "birth_date_alt">>,
   <<"individual_number", "individual_number_alt">>}

\* the trimmed capture of pattern k on the flat text, <<>> when none
Capture(doc, k, text) ==
  IF k \in DOMAIN patterns(doc)
  THEN TrimSpace(FindStringSubmatch(patterns(doc)[k], text).g1)
  ELSE <<>>

\* C10: after the extraction step of parseTextWithRegex, a field whose
\* canonical pattern captured a value holds that canonical capture; the
\* alternate pattern supplies the field only when the canonical pass left
\* it absent.
C10_AlternateNeverOverrides ==
  pc = "postprocess" =>
    \A p \in AlternatePairs :
      LET canon == Capture(docType, p[1], ocrText)
          alt   == Capture(docType, p[2], ocrText)
          data  == extractedData[2]
      IN /\ canon /= <<>> => (p[1] \in DOMAIN data /\ data[p[1]] = canon)
         /\ (canon = <<>> /\ p[1] \in DOMAIN data) => data[p[1]] = alt
         /\ (canon = <<>> /\ alt /= <<>>) => p[1] \in DOMAIN data

C10_Witness ==
  /\ pc = "postprocess"
  /\ Capture(docType, "name", ocrText) /= <<>>
  /\ Capture(docType, "name_alt", ocrText) /= <<>>
  /\ Capture(docType, "name_alt", ocrText) /= Capture(docType, "name", ocrText)
  /\ extractedData[2]["name"] = Capture(docType, "name", ocrText)

\* the requested document type has a registration in the factory
Registered(documentType) == documentType \in DOMAIN NewParserFactory

\* the worker got past step 1 of processOCRRequest
ImageProcessed ==
  /\ wpc \in {"getParser", "parse", "send", "exit"}
  /\ ProcessImage(req.Image).err = NoError

\* C11: for a document type that is not registered, GetParser yields the
\* UnsupportedDocumentTypeError and no parser, processOCRRequest returns
\* that error and never invokes Parse; for a registered type the worker
\* holds the registered parser, without a GetParser error.
C11_UnsupportedTypeGetsNoParser ==
  /\ ~Registered(req.DocumentType) => (parser = NoParser /\ parseCalls = 0)
  /\ (ImageProcessed /\ wpc /= "getParser" /\ ~Registered(req.DocumentType)) =>
       /\ wpc \in {"send", "exit"}
       /\ workerRet.response = NoOCRResponse
       /\ workerRet.err = <<"failed to get parser",
                            "UnsupportedDocumentTypeError">> \o req.DocumentType
  /\ (ImageProcessed /\ wpc /= "getParser" /\ Registered(req.DocumentType)) =>
       /\ parser = NewParserFactory[req.DocumentType]
       /\ wpc \in {"send", "exit"} =>
            /\ parseCalls = 1
            /\ workerRet.err /= NoError =>
                 Head(workerRet.err) = "failed to parse document"

C11_Witness ==
  /\ wpc = "exit"
  /\ req.DocumentType = <<"passport_us">>
  /\ ImageProcessed
  /\ workerRet.err = <<"failed to get parser", "UnsupportedDocumentTypeError",
                       "passport_us">>
  /\ parseCalls = 0

TimeoutResponse ==
  [NoResponse EXCEPT !.code = 408,
     !.message = <<"Request timeout: processing exceeded 30 seconds">>]

\* a wait ended by the deadline signal returns the deadline error and is
\* answered 408 "Request timeout"
DeadlineAnswered ==
  (hpc \in {"returned", "responded"} /\ waitEnded = "done"
   /\ ctxErr = "deadline") =>
    /\ selected = [response |-> NoOCRResponse,
                   err |-> <<"context deadline exceeded">>]
    /\ hpc = "responded" => response = TimeoutResponse

\* C12: once the deadline has expired while HandleOCR waits, HandleOCR
\* answers without the worker having to make another step (it never blocks
\* until the in-flight OCR work completes); a wait that the deadline signal
\* ended while the worker had delivered nothing is answered 408 "Request
\* timeout".
C12_DeadlineEndsTheWait ==
  /\ []DeadlineAnswered
  /\ [][(hpc = "waiting" /\ ctxErr = "deadline" /\ resultChan = <<>>
         /\ errorChan = <<>> /\ hpc' = "returned")
        => (waitEnded' = "done" /\ wpc' = wpc)]_vars
  /\ (hpc = "waiting" /\ ctxErr = "deadline") ~> (hpc = "responded")

C12_Witness ==
  /\ hpc = "responded"
  /\ waitEnded = "done"
  /\ response = TimeoutResponse
  /\ wpc = "parse"
  /\ resultChan = <<>>
  /\ errorChan = <<>>

\* C13: HandleOCR answers 408 only when the deadline signal ended the wait;
\* a wait ended by the worker's error is answered 422, a wait ended by the
\* worker's result is answered 200, and a cancellation that is not a
\* deadline expiry is not answered as a parse failure (422).
C13_TimeoutOnlyWhenDeadlineEndedWait ==
  (hpc = "responded" /\ waitEnded /= "none") =>
    /\ response.code = 408 =>
         (waitEnded = "done" /\ selected.err = <<"context deadline exceeded">>)
    /\ waitEnded = "error" => response.code = 422
    /\ waitEnded = "result" => response.code = 200
    /\ (waitEnded = "done" /\ selected.err = <<"context canceled">>) =>
         response.code /= 422

\* C14: every engine handle a Parse call created has been closed exactly
\* once by the time the stage that created it has returned, on the error
\* and on the success path; a stage that requested OCR output created its
\* own handle, so no handle serves two stages.
C14_EnginesReleasedPerStage ==
  /\ \A i \in 1..Len(engines) : engines[i].closes = 1
  /\ \A i, j \in 1..Len(engines) :
       i /= j => engines[i].stage /= engines[j].stage
  /\ Cardinality({i \in 1..Len(engines) : engines[i].stage = "region"})
       = regionCalls
  /\ Cardinality({i \in 1..Len(engines) : engines[i].stage = "fallback"})
       = (IF textCalls = 1 /\ fallbackAcquires(docType, mat) THEN 1 ELSE 0)
  /\ pc = "region" => engines = <<>>

C14_Witness ==
  /\ pc = "done"
  /\ docType = INC
  /\ regionResult.err /= NoError
  /\ ret.err /= NoError
  /\ Len(engines) = 2
  /\ engines[1] = [stage |-> "region", closes |-> 1]
  /\ engines[2] = [stage |-> "fallback", closes |-> 1]

\* the outcome the documented order of checks prescribes for a request
ExpectedRejection(r) ==
  LET payload == DecodeString(validatedPayload(r.Image))
  IN IF TrimSpace(r.Image) = <<>>
     THEN [code |-> 400, text |-> <<"image ", "field is required">>]
     ELSE IF TrimSpace(r.DocumentType) = <<>>
     THEN [code |-> 400, text |-> <<"documentType ", "field is required">>]
     ELSE IF r.DocumentType \notin {<<DL>>, <<INC>>}
     THEN [code |-> 422, text |-> <<"unsupported document type">>]
     ELSE IF ~payload.ok
     THEN [code |-> 400, text |-> <<"invalid base64 encoding">>]
     ELSE IF payload.len > MaxImageSize
     THEN [code |-> 422, text |-> <<"image size exceeds maximum limit">>]
     ELSE IF ~isValidImageFormat(payload)
     THEN [code |-> 422, text |-> <<"unsupported image format">>]
     ELSE [code |-> 0, text |-> <<>>]

\* HandleOCR answered because Validate rejected the request
RejectedByValidate ==
  /\ hpc = "responded"
  /\ wpc = "none"
  /\ response.code \notin {200, 405}
  /\ response.message /= <<"Invalid JSON format: ">>

\* C15: an invalid request is rejected with the message of the first
\* failing check, in the order blank image, blank documentType, unsupported
\* document type, invalid base64, size above 10 MB, neither PNG nor JPEG,
\* and with the status code listed for that check; a request that passes
\* all checks is accepted.
C15_FirstFailingCheckAndStatus ==
  /\ RejectedByValidate =>
       /\ ExpectedRejection(req).code /= 0
       /\ response.code = ExpectedRejection(req).code
       /\ Contains(response.message, ExpectedRejection(req).text)
  /\ hpc = "waiting" => ExpectedRejection(req).code = 0

\* removal of spaces and hyphens
StripSeparators(v) == ReplaceAll(ReplaceAll(v, <<" ">>, <<>>), <<"-">>, <<>>)

\* C16: for both document types the fallback normalisation turns a
\* numeric-ID value that has exactly 12 characters once spaces and hyphens
\* are stripped into those characters grouped four-four-four with hyphens.
C16_NumericIdRegrouped ==
  [][(/\ pc = "postprocess"
      /\ pc' = "validate"
      /\ NumericIdField(docType) \in DOMAIN extractedData[2]
      /\ Len(StripSeparators(extractedData[2][NumericIdField(docType)])) = 12)
     => LET s == StripSeparators(extractedData[2][NumericIdField(docType)])
        IN extractedData'[2][NumericIdField(docType)] =
             SubSeq(s, 1, 4) \o <<"-">> \o SubSeq(s, 5, 8) \o <<"-">>
             \o SubSeq(s, 9, 12)]_vars

\* the form dddd-dddd-dddd
RegroupedForm(v) ==
  /\ Len(v) = 14
  /\ \A i \in 1..14 : IF i \in {5, 10} THEN v[i] = "-" ELSE v[i] \in Digits

\* 氏名 山田 花子\n住所 大阪府大阪市\n個人番号 123456789012
ScenarioFlatText ==
  NameLine \o <<"\n", "juu", "sho", " ", "oo", "saka", "hu", "oo", "saka",
                "shi", "\n", "ko", "jin", "ban", "gou", " ">> \o Number12

\* C17: for individual_number_card_jp every successful fallback result that
\* contains individual_number holds it in the form dddd-dddd-dddd; the
\* scenario flat text succeeds with individual_number 1234-5678-9012 and
\* the name present.
C17_FallbackIndividualNumberRegrouped ==
  (pc = "done" /\ docType = INC /\ textCalls = 1) =>
    /\ (ret.err = NoError /\ "individual_number" \in DOMAIN ret.data[2]) =>
         RegroupedForm(ret.data[2]["individual_number"])
    /\ ocrText = ScenarioFlatText =>
         /\ ret.err = NoError
         /\ "individual_number" \in DOMAIN ret.data[2]
         /\ ret.data[2]["individual_number"] = Grouped12
         /\ "name" \in DOMAIN ret.data[2]
         /\ TrimSpace(ret.data[2]["name"]) /= <<>>

C17_Witness ==
  /\ pc = "done"
  /\ docType = INC
  /\ textCalls = 1
  /\ ocrText = ScenarioFlatText
  /\ ret.err = NoError
  /\ ret.data[2]["individual_number"] = Grouped12

\* 田中太郎, 東京都港区, 平成5年12月25日
ScenarioFragments ==
  << <<"ta", "naka", "futo", "rou">>,
     <<"higashi", "kyou", "to", "minato", "ku">>,
     <<"hei", "naru", "5", "nen", "1", "2", "gatsu", "2", "5", "nichi">> >>

\* C18: for drivers_license_jp, when region extraction returns exactly the
\* three scenario fragments, the region stage result is accepted and is
\* exactly {name, address, birth_date} with the fragment texts (so that
\* Parse returns it without the fallback stage).
C18_ScenarioRegionStageSucceeds ==
  (/\ pc = "regionCheck"
   /\ docType = DL
   /\ [i \in 1..Len(regions) |-> regions[i].Text] = ScenarioFragments)
  => /\ regionAccepted(docType, extractedData, err)
     /\ extractedData =
          SomeMap([k \in {"name", "address", "birth_date"} |->
                     CASE k = "name" -> ScenarioFragments[1]
                       [] k = "address" -> ScenarioFragments[2]
                       [] k = "birth_date" -> ScenarioFragments[3]])

\* every required field is present and non-blank after trimming
RequiredPresent(data) ==
  \A f \in RequiredFields : f \in DOMAIN data /\ TrimSpace(data[f]) /= <<>>

\* the error validateExtractedData reports for the numeric ID
NumberFormatErrors ==
  {<<"invalid license number format">>, <<"invalid individual number format">>}

\* C19: on a FieldMap whose required fields are present, validation accepts
\* the numeric-ID field exactly when it is absent or consists of 12 decimal
\* digits once spaces and hyphens are stripped.
C19_NumericIdAcceptedIffTwelveDigits ==
  (validation.state = "returned" /\ RequiredPresent(validation.data)) =>
    LET f == NumericIdField(validation.doc)
    IN (validation.err \notin NumberFormatErrors)
         <=> (f \notin DOMAIN validation.data
              \/ TwelveDigits(validation.data[f]))

\* C20 as stated: validation succeeds exactly when every required field is
\* present and non-blank, whatever the optional fields hold.
C20_RequiredFieldsDecideAlone ==
  validation.state = "returned" =>
    ((validation.err = NoError) <=> RequiredPresent(validation.data))

\* C20 as amended: on a FieldMap without numeric-ID field and without gender
\* field, validation succeeds exactly when every required field is present
\* and non-blank, whatever the remaining optional fields hold.
C20_RequiredFieldsDecideWithoutFormatFields ==
  (/\ validation.state = "returned"
   /\ NumericIdField(validation.doc) \notin DOMAIN validation.data
   /\ "gender" \notin DOMAIN validation.data)
  => ((validation.err = NoError) <=> RequiredPresent(validation.data))

C20_Witness ==
  /\ validation.state = "returned"
  /\ NumericIdField(validation.doc) \notin DOMAIN validation.data
  /\ "gender" \notin DOMAIN validation.data
  /\ "address" \in DOMAIN validation.data
  /\ validation.data["address"] = <<>>
  /\ RequiredPresent(validation.data)
  /\ validation.err = NoError

\* the category the classifier rules give when length counts characters
CategoryByCharacters(text) ==
  IF Contains(text, <<"nen">>) /\ Contains(text, <<"gatsu">>) THEN "date"
  ELSE IF ContainsAny(text, {"to", "ken", "shi", "ku"}) THEN "address"
  ELSE IF Len(text) >= 2 /\ Len(text) <= 10 /\ ~ContainsAny(text, Digits)
       THEN "name"
  ELSE IF ContainsAny(text, Digits) /\ Len(text) >= 4 THEN "number"
  ELSE "other"

\* C21: every fragment ExtractRegions returns carries the category of the
\* first matching rule (date, address, name for 2 to 10 characters without
\* digit, number, other); a 4-character kanji name is classified name.
C21_ClassifierFirstMatchingRule ==
  \A i \in 1..Len(regions) :
    regions[i].Category = CategoryByCharacters(regions[i].Text)

\* the region stage's numeric-ID validator of a document type
IdValidatorAccepts(doc, text) ==
  IF doc = DL THEN isValidLicenseNumber(text)
  ELSE isValidIndividualNumber(text)

\* C22: in the region stage the numeric-ID validator of the parser accepts
\* a number fragment exactly when the fragment has 12 characters, all of
\* them decimal digits, once whitespace and hyphens are stripped; a value
\* that is not of that kind (an 11-digit one) is not in the region FieldMap.
C22_RegionIdValidatorTwelveDigits ==
  (pc = "regionCheck" /\ err = NoError) =>
    /\ \A i \in 1..Len(regions) :
         regions[i].Category = "number" =>
           (IdValidatorAccepts(docType, regions[i].Text)
              <=> TwelveDigits(regions[i].Text))
    /\ NumericIdField(docType) \in DOMAIN extractedData[2] =>
         TwelveDigits(extractedData[2][NumericIdField(docType)])

\* the date sub-field the markers of a valid date fragment select, "" if none
DateKeyByMarker(text) ==
  IF ~(Contains(text, <<"nen">>) /\ Contains(text, <<"gatsu">>)) THEN ""
  ELSE IF Contains(text, <<"sei">>) THEN "birth_date"
  ELSE IF Contains(text, <<"kou", "fu">>) THEN "issue_date"
  ELSE IF Contains(text, <<"yuu", "kiku">>) THEN "expiry_date"
  ELSE ""

\* C23: in the region stage of both parsers a date sub-field is set exactly
\* when some valid date fragment selects it by its marker (birth marker,
\* else issuance marker, else expiry marker); a valid date fragment without
\* any of the markers sets no field.
C23_DateFieldByMarker ==
  (pc = "regionCheck" /\ err = NoError) =>
    \A k \in DateFields :
      (k \in DOMAIN extractedData[2])
        <=> (\E i \in 1..Len(regions) : DateKeyByMarker(regions[i].Text) = k)

\* the numeric-ID field is present and is not 12 digits once stripped
NumericIdInvalid(doc, data) ==
  /\ NumericIdField(doc) \in DOMAIN data
  /\ ~TwelveDigits(data[NumericIdField(doc)])

\* C24: validation reports the first failing check in the order required
\* fields, numeric-ID format, gender: a missing or blank required field is
\* reported whatever else is wrong, and with the required fields present an
\* invalid numeric ID is reported rather than the gender.
C24_FirstFailingCheckReported ==
  validation.state = "returned" =>
    /\ ~RequiredPresent(validation.data) =>
         validation.err = <<"required field 'name' is missing or empty">>
    /\ (RequiredPresent(validation.data)
        /\ NumericIdInvalid(validation.doc, validation.data)) =>
         validation.err \in NumberFormatErrors

\* the keys registered so far: the two of construction and the later ones
RegisteredKeys ==
  {<<DL>>, <<INC>>} \cup {registrations[i][1] : i \in 1..Len(registrations)}

\* the parser of the most recent registration for key t
RECURSIVE LastRegistered(_, _)
LastRegistered(t, i) ==
  IF i = 0 THEN t[1]
  ELSE IF registrations[i][1] = t THEN registrations[i][2]
  ELSE LastRegistered(t, i - 1)

FactoryConsistent ==
  /\ DOMAIN factory = RegisteredKeys
  /\ registrations = <<>> => DOMAIN factory = {<<DL>>, <<INC>>}
  /\ factoryCall.op = "GetSupportedDocumentTypes" =>
       /\ {factoryCall.types[i] : i \in 1..Len(factoryCall.types)}
            = RegisteredKeys
       /\ Len(factoryCall.types) = Cardinality(RegisteredKeys)
  /\ factoryCall.op = "GetParser" =>
       IF factoryCall.arg \in RegisteredKeys
       THEN factoryCall.result =
              [parser |-> LastRegistered(factoryCall.arg, Len(registrations)),
               err |-> NoError]
       ELSE /\ factoryCall.result.parser = NoParser
            /\ factoryCall.result.err /= NoError

\* C25: after any sequence of RegisterParser calls the factory holds exactly
\* the registered keys (the two of construction on a fresh factory),
\* GetSupportedDocumentTypes returns them without duplicates, GetParser
\* returns the parser of the most recent registration of its key, and the
\* two read calls leave the registry unchanged.
C25_RegistryLastRegistrationWins ==
  /\ []FactoryConsistent
  /\ [][factoryCall'.op /= "none" => factory' = factory]_vars

C25_Witness ==
  /\ Len(registrations) = 2
  /\ registrations[1] = <<<<DL>>, DL>>
  /\ registrations[2] = <<<<DL>>, INC>>
  /\ factoryCall.op = "GetParser"
  /\ factoryCall.arg = <<DL>>
  /\ factoryCall.result.parser = INC

\* C26: within one Parse call region extraction is requested at most once,
\* flat text extraction at most once, and flat text extraction only after
\* the region attempt has finished with a result Parse does not accept.
C26_NoRetries ==
  /\ regionCalls <= 1
  /\ textCalls <= 1
  /\ textCalls = 1 =>
       /\ pc \notin {"region", "regionCheck"}
       /\ ~regionAccepted(docType, regionResult.data, regionResult.err)

C26_Witness ==
  /\ pc = "done"
  /\ regionCalls = 1
  /\ textCalls = 1
  /\ regionResult.err = NoError
  /\ ret.err /= NoError

\* C27: applying postProcessExtractedData to a FieldMap whose numeric ID is
\* already a four-four-four grouped 12-digit ID leaves that ID unchanged,
\* for both document types.
C27_GroupedIdUnchangedByNormalization ==
  LET f == NumericIdField(normalization.doc)
  IN (/\ normalization.applied >= 1
      /\ f \in DOMAIN normalization.prev
      /\ RegroupedForm(normalization.prev[f]))
     => normalization.data[f] = normalization.prev[f]

C27_Witness ==
  /\ normalization.applied = 2
  /\ normalization.doc = INC
  /\ "individual_number" \in DOMAIN normalization.input
  /\ normalization.input["individual_number"] = Number12
  /\ normalization.prev["individual_number"] = Grouped12
  /\ normalization.data["individual_number"] = Grouped12

\* what Parse of parser p returns when it runs alone and the engine gives
\* rout to its region stage and tout to its fallback stage
ParseAlone(p, rout, tout) ==
  LET regionData == IF rout.err /= NoError THEN NilMap
                    ELSE SomeMap(regionFields(p, rout.regions))
  IN IF regionAccepted(p, regionData, rout.err)
     THEN [data |-> regionData, err |-> NoError]
     ELSE IF tout.err /= NoError
     THEN [data |-> NilMap,
           err |-> <<"failed to extract text via OCR">> \o tout.err]
     ELSE LET data == parseTextWithRegex(p, tout.text)
              verr == validateExtractedData(p, data)
          IN IF verr /= NoError
             THEN [data |-> NilMap, err |-> validationWrap(p) \o verr]
             ELSE [data |-> SomeMap(data), err |-> NoError]

\* a finished call returned what it returns when it runs alone
ResultAsAlone(c) ==
  calls[c].pc = "done" =>
    calls[c].ret =
      ParseAlone(calls[c].parser, calls[c].regionOut[1],
                 IF calls[c].textOut = <<>>
                 THEN [err |-> NoError, text |-> <<>>]
                 ELSE calls[c].textOut[1])

\* C28: concurrent Parse calls on the parsers of one shared ParserFactory
\* leave the registry unchanged and, under every interleaving, each call
\* returns what it would return running alone with the same OCR outputs.
C28_ConcurrentCallsIndependent ==
  /\ [](\A c \in CallIds : ResultAsAlone(c))
  /\ [][factory' = factory]_vars

C28_Witness ==
  /\ calls[1].pc = "done"
  /\ calls[2].pc = "done"
  /\ calls[1].parser = calls[2].parser
  /\ calls[1].ret.err = NoError
  /\ calls[2].ret.err = NoError
  /\ calls[1].textOut /= <<>>
  /\ calls[2].textOut /= <<>>
  /\ calls[1].ret /= calls[2].ret

\* messages the worker goroutine has sent: those still buffered and the one
\* the select received
MessagesSent ==
  Len(resultChan) + Len(errorChan)
  + (IF waitEnded \in {"result", "error"} THEN 1 ELSE 0)

\* the worker at its send statement finds room in the channel it sends on
SendCanProceed == wpc = "send" => ENABLED WorkerSend

\* C29: the worker goroutine sends exactly one message in total, on the
\* error channel or on the result channel; its send never finds the channel
\* full, also after the handler has returned on the deadline; and once
\* processOCRRequest has returned the worker completes its send and exits.
C29_WorkerSendNeverBlocks ==
  /\ [](hpc /= "direct" =>
          /\ SendCanProceed
          /\ MessagesSent = (IF wpc = "exit" THEN 1 ELSE 0))
  /\ (wpc = "send") ~> (wpc = "exit")

C29_Witness ==
  /\ hpc = "responded"
  /\ waitEnded = "done"
  /\ ctxErr = "deadline"
  /\ response = TimeoutResponse
  /\ wpc = "exit"
  /\ MessagesSent = 1


\* the worker has executed step 1 of processOCRRequest on a request
\* that OCRRequest.Validate accepts
ValidatedImageDecoded ==
  /\ wpc \in {"getParser", "parse", "send", "exit"}
  /\ Validate(req) = NoError

\* C30: every image that OCRRequest.Validate accepts is decoded without
\* error by ImageProcessor.ProcessImage, to the same bytes that Validate
\* checked, so that a validated request never returns the
\* "failed to process image" error from the image-decoding step.
C30_ValidatedImageAlwaysDecodes ==
  ValidatedImageDecoded =>
    /\ ProcessImage(req.Image).err = NoError
    /\ DecodeBase64(req.Image).data = DecodeString(validatedPayload(req.Image))
    /\ ~HasPrefixAt(workerRet.err, <<"failed to process image">>, 1)

=============================================================================
